---- MODULE Spec2Model ----
(***************************************************************************)
(* State machine of the tool-orchestration engine of mcp_macos:            *)
(* MCPClient (backend/src/services/mcpClient.ts), the protocol client that *)
(* owns the tool-execution subprocess, its pending-request map, its        *)
(* response buffer and its timers; and ChatService                         *)
(* (backend/src/services/chatService.ts) with the chat_message handler of  *)
(* server.ts, which turns one inbound message into one chat response       *)
(* through the decision calls of the model and the tool batches.           *)
(* LLMService (backend/src/services/llmService.ts) has specifications of   *)
(* its own: the retry loop, the conversation histories, the follow-up      *)
(* call, and the histories together with the session registry.             *)
(* The hook useSocket of the browser (frontend/src/hooks/useSocket.ts),     *)
(* which reconnects the socket, has the specification SpecHook.            *)
(*                                                                         *)
(* Every handler of the class is one action: node runs a handler to        *)
(* completion, and the continuation of an awaiting caller runs as a        *)
(* microtask right after the handler that settles its promise, so the      *)
(* settlement and the caller's return value are written in the same step.  *)
(***************************************************************************)
EXTENDS Integers, Sequences, FiniteSets, TLC

\* ------------------------------------------------------------------ bounds
\* callTool invocations per behaviour
MaxCalls == 2
\* connect() invocations (spawned subprocesses) per behaviour
MaxSpawns == 2
\* largest step the clock takes when no timer is due sooner (ms)
TickMs == 30000
\* stdout lines the subprocess writes in the framing specification
MaxLines == 2
\* chat_message handlers in flight at once
MaxMsgs == 1
\* chat_message events processed per session
MaxCount == 2
\* tool calls the model requests in one batch
MaxBatch == 2
\* ticks of Date.now() per behaviour
MaxClock == 1
\* calls of callLLMWithRetry per behaviour
MaxLLMCalls == 2
\* messages appended to the history of one session between two clears
MaxAppends == 22
\* runs of ChatService.processMessage per behaviour of the session registry
MaxRuns == 2
\* step of Date.now() between two events of the session registry (ms)
SessionTickMs == 900000
\* steps of Date.now() per behaviour of the session registry
MaxSessionTicks == 3
\* largest step of the clock while a retry delay runs (ms)
RetryTickMs == 500
\* sockets one hook makes: the first, five automatic ones, and those of
\* reconnect()
MaxSockets == 8
\* calls of reconnect()
MaxReconnects == 1

\* --------------------------------------------------------- program constants
\* setTimeout(resolve, 3000) in connect()
SettleDelayMs == 3000
\* setTimeout(..., 45000) in waitForResponse()
RequestTimeoutMs == 45000
\* ChatService.SESSION_TIMEOUT_MS, 30 * 60 * 1000
SESSION_TIMEOUT_MS == 1800000
\* LLMService, llmService.ts lines 28-30
MAX_CONTEXT_MESSAGES == 20
MAX_RETRIES == 3
RETRY_DELAY_MS == 1000
\* useSocket, useSocket.ts line 19
maxReconnectAttempts == 5

\* ------------------------------------------------------------------- bytes
\* One stdout byte is a string: an ASCII character, or the hexadecimal name
\* of a non-ASCII byte.  "C3" "A9" is the UTF-8 encoding of U+00E9.
NL == "\n"
SP == " "
LeadByte == "C3"
ContByte == "A9"
\* decoded characters that are not ASCII
CharE9 == "U+00E9"
CharFFFD == "U+FFFD"

\* JSON number of request k as it appears on the wire
IdChars == <<"1", "2", "3", "4", "5">>
Ids == {IdChars[k] : k \in 1..Len(IdChars)}
\* what the body of a reply object holds:
\*   "t"  result.content[0] = {type:"text", text}
\*   "i"  result.content[0] = {type:"image", data}
\*   "e"  error = {message}
BodyChars == {"t", "i", "e", CharE9, CharFFFD}

Min(a, b) == IF a < b THEN a ELSE b

\* ------------------------------------------------------ Buffer.toString()
\* data.toString() decodes each chunk on its own: a lead byte followed by its
\* continuation byte is one character; a lead byte that the chunk cuts off, or
\* that another byte follows, and a continuation byte with no lead byte before
\* it, each decode to U+FFFD.
RECURSIVE BufferToString(_)
BufferToString(bytes) ==
  IF bytes = <<>> THEN <<>>
  ELSE IF Head(bytes) = LeadByte
       THEN IF Len(bytes) >= 2 /\ bytes[2] = ContByte
            THEN <<CharE9>> \o BufferToString(SubSeq(bytes, 3, Len(bytes)))
            ELSE <<CharFFFD>> \o BufferToString(Tail(bytes))
       ELSE IF Head(bytes) = ContByte
            THEN <<CharFFFD>> \o BufferToString(Tail(bytes))
            ELSE <<Head(bytes)>> \o BufferToString(Tail(bytes))

\* ------------------------------------------------------- String.split('\n')
\* Always at least one segment; the last one is the text after the last "\n".
RECURSIVE SplitNL(_)
SplitNL(s) ==
  IF \A k \in 1..Len(s) : s[k] # NL THEN <<s>>
  ELSE LET k == CHOOSE j \in 1..Len(s) : s[j] = NL /\ \A m \in 1..(j-1) : s[m] # NL
       IN <<SubSeq(s, 1, k-1)>> \o SplitNL(SubSeq(s, k+1, Len(s)))

\* ------------------------------------------------------------ String.trim()
RECURSIVE TrimLeft(_)
TrimLeft(s) == IF s # <<>> /\ Head(s) = SP THEN TrimLeft(Tail(s)) ELSE s

RECURSIVE TrimRight(_)
TrimRight(s) ==
  IF s # <<>> /\ s[Len(s)] = SP THEN TrimRight(SubSeq(s, 1, Len(s)-1)) ELSE s

Trim(s) == TrimLeft(TrimRight(s))

\* --------------------------------------------------------------- JSON.parse
\* The wire grammar of the model: "{" id? body* "}" is an object (white space
\* between its tokens is skipped); a run of digits is a number (valid JSON
\* with no id property); anything else throws.
\* The result is [ok, id, body]; id = "" stands for a value with no id.
NotSpace(ch) == ch # SP

JsonParse(s) ==
  IF Len(s) >= 2 /\ s[1] = "{" /\ s[Len(s)] = "}"
  THEN LET inner  == SelectSeq(SubSeq(s, 2, Len(s)-1), NotSpace)
           hasId  == inner # <<>> /\ inner[1] \in Ids
           body   == IF hasId THEN Tail(inner) ELSE inner
       IN IF \A k \in 1..Len(body) : body[k] \in BodyChars
          THEN [ok |-> TRUE, id |-> IF hasId THEN inner[1] ELSE "", body |-> body]
          ELSE [ok |-> FALSE, id |-> "", body |-> <<>>]
  ELSE IF s # <<>> /\ \A k \in 1..Len(s) : s[k] \in Ids
       THEN [ok |-> TRUE, id |-> "", body |-> <<>>]
       ELSE [ok |-> FALSE, id |-> "", body |-> <<>>]

\* The response object a parsed line hands to handleResponse.
ResponseOf(p) == [id |-> p.id, body |-> p.body]

\* --------------------------------------------------- handleProcessOutput
\* lines 69-73: append the decoded chunk, split, keep the last segment.
AppendAndSplit(buffer, data) == SplitNL(buffer \o BufferToString(data))

\* lines.pop() || ''
KeptFragment(lines) == lines[Len(lines)]

\* the segments before the popped one
CompleteLines(lines) == SubSeq(lines, 1, Len(lines) - 1)

\* a loop that a line JSON.parse throws on ends: the lines after it are lost
RECURSIVE ParsedResponsesUntilThrow(_)
ParsedResponsesUntilThrow(lines) ==
  IF lines = <<>> THEN <<>>
  ELSE LET t == Trim(Head(lines))
           p == JsonParse(t)
       IN IF t # <<>> /\ ~p.ok THEN <<>>
          ELSE (IF t # <<>> THEN <<ResponseOf(p)>> ELSE <<>>)
               \o ParsedResponsesUntilThrow(Tail(lines))

\* lines 75-84: the responses handed to handleResponse, in order; a blank line
\* is skipped and a line JSON.parse throws on is logged and dropped.
RECURSIVE ParsedResponses(_)
ParsedResponses(lines) ==
  IF lines = <<>> THEN <<>>
  ELSE LET t == Trim(Head(lines))
           p == JsonParse(t)
       IN (IF t # <<>> /\ p.ok THEN <<ResponseOf(p)>> ELSE <<>>)
          \o ParsedResponses(Tail(lines))

\* ------------------------------------------------------------------- state
VARIABLES
  mcpProcess,       \* this.mcpProcess: 0 is null, p > 0 the p-th spawned process
  connected,        \* this.connected
  tools,            \* this.tools (tool names, in order)
  responseBuffer,   \* this.responseBuffer (decoded characters)
  pendingRequests,  \* this.pendingRequests: id -> the call whose closures it holds
  timer,            \* per call, the timer of waitForResponse: state and ms left
  calls,            \* per callTool invocation: the caller's view
  conn,             \* per connect() invocation: where it stands, ms of delay left
  procs,            \* per spawned subprocess: its life
  stdin,            \* per subprocess: the messages written to its stdin
  owed,             \* requests a subprocess has read and not answered
  wire,             \* per subprocess: stdout bytes written and not yet read
  replied,          \* per call, the body the subprocess answered it with
  serverTools,      \* the catalog the subprocess would report in tools/list
  thisMs,           \* the calls made in the current millisecond
  received,         \* framing: every stdout byte handled so far, in order
  handled           \* framing: every response handed to handleResponse, in order

mcpVars == <<mcpProcess, connected, tools, responseBuffer, pendingRequests, timer,
             calls, conn, procs, stdin, owed, wire, replied, serverTools, thisMs,
             received, handled>>

\* ChatService (backend/src/services/chatService.ts) and the chat_message
\* handler of server.ts
VARIABLES
  mcpClient,        \* the MCPClientInterface implementation ChatService was given
  sessions,         \* this.sessions: session id -> ChatSession
  clock,            \* Date.now()
  chat              \* per chat_message event: its handler's locals and what it emitted

chatVars == <<mcpClient, sessions, clock, chat>>

\* LLMService (backend/src/services/llmService.ts)
VARIABLES
  conversations,    \* this.conversations: session id -> ConversationMessage[]
  llm,              \* per call of callLLMWithRetry: its locals and what it did
  appended,         \* bookkeeping: per session, every message appended to its
                    \* history since the history was last cleared, in order
  followUp,         \* per session, what generateFollowUpResponse last settled with
  openai            \* this.openai is set: the constructor found an API key

llmVars == <<conversations, llm, appended, followUp, openai>>

\* ChatService.processMessage as LLMService and the session registry see it
VARIABLES
  runs,             \* per run of processMessage: where it stands, its session,
                    \* and the context its last model call was sent with
  swept,            \* bookkeeping: the sessions a sweep evicted that no message
                    \* has arrived for since
  inbound           \* bookkeeping: per session, the messages that entered
                    \* processMessage since its record was last absent

runVars == <<runs, swept, inbound>>

\* the hook useSocket of the browser (frontend/src/hooks/useSocket.ts)
VARIABLES
  socket,            \* the state 'socket': 0 is null, i > 0 the i-th socket made
  sockets,           \* per socket made by io(): its status, and the 'socket' that
                     \* the connectSocket which made it sees in its closure
  reconnectAttempts, \* reconnectAttempts.current
  reconnectTimeout,  \* reconnectTimeout.current: 0 is undefined, t > 0 the t-th timer
  timers,            \* the timers of scheduleReconnect, in the order they were set
  reconnects         \* bookkeeping: the calls of reconnect() so far

hookVars == <<socket, sockets, reconnectAttempts, reconnectTimeout, timers, reconnects>>

vars == <<mcpVars, chatVars, llmVars, runVars, hookVars>>

Undef == "undefined"
ScreenTool == "remote_macos_get_screen"
ClickTool == "remote_macos_mouse_click"

\* lines 106-225: the catalog loadTools() assigns
HardcodedTools ==
  <<ScreenTool, ClickTool, "remote_macos_mouse_double_click",
    "remote_macos_mouse_move", "remote_macos_mouse_scroll",
    "remote_macos_mouse_drag_n_drop", "remote_macos_send_keys",
    "remote_macos_open_application">>

\* catalogs a tool-execution server may report (the second is the one of
\* __tests__/mcpClient.test.ts)
ServerCatalogs == {HardcodedTools, <<ScreenTool>>}

\* tool names a caller passes to callTool
ToolNames == {ScreenTool}

\* bodies the subprocess answers a tools/call with
ReplyKinds == {"t", "e"}

\* what a stdin whose write() answers at once answers with (the test's stdin)
EchoKinds == {"t"}

ErrNotConnected == "MCP client not connected"
ErrNotWritable == "MCP process stdin not writable"
ErrTimeout == "MCP request timeout"
ErrDisconnected == "MCP client disconnected"
ErrExited == "MCP process exited with code"
ErrSpawn == "spawn error"

NoResponse == [id |-> "", body |-> <<>>]
NoResult == [success |-> FALSE, content |-> Undef, imageData |-> Undef,
             error |-> Undef, toolName |-> Undef]

Procs == 1..MaxSpawns
CallIds == 1..MaxCalls

\* ------------------------------------------------------ callTool, lines 266-310
\* the MCPToolResult callTool builds from the response it was resolved with
ToolResultOf(response, name) ==
  IF response.body # <<>> /\ Head(response.body) = "e"
  THEN [success |-> FALSE, content |-> Undef, imageData |-> Undef,
        error |-> "server error", toolName |-> name]
  ELSE IF response.body # <<>> /\ Head(response.body) = "i"
  THEN [success |-> TRUE, content |-> Undef, imageData |-> "image data",
        error |-> Undef, toolName |-> name]
  ELSE IF response.body # <<>> /\ Head(response.body) = "t"
  THEN [success |-> TRUE, content |-> "text of the response", imageData |-> Undef,
        error |-> Undef, toolName |-> name]
  ELSE [success |-> TRUE, content |-> "Tool executed successfully",
        imageData |-> Undef, error |-> Undef, toolName |-> name]

\* the catch of callTool, lines 303-310
FailedResult(message, name) ==
  [success |-> FALSE, content |-> Undef, imageData |-> Undef,
   error |-> message, toolName |-> name]

\* ------------------------------------------------- the promise of a caller
\* request.resolve(response): a promise settles once, later calls are no-ops;
\* the awaiting callTool resumes and returns its result.  settles counts the
\* calls of resolve and reject.
Resolve(cs, c, response) ==
  [cs EXCEPT ![c] =
     IF cs[c].settles = 0
     THEN [cs[c] EXCEPT !.settles = 1, !.st = "returned", !.resp = response,
                        !.result = ToolResultOf(response, cs[c].name)]
     ELSE [cs[c] EXCEPT !.settles = cs[c].settles + 1]]

\* request.reject(error)
Reject(cs, c, message) ==
  [cs EXCEPT ![c] =
     IF cs[c].settles = 0
     THEN [cs[c] EXCEPT !.settles = 1, !.st = "returned",
                        !.result = FailedResult(message, cs[c].name)]
     ELSE [cs[c] EXCEPT !.settles = cs[c].settles + 1]]

\* The Map is a function on every id; 0 stands for "no entry".
EmptyMap == [k \in Ids |-> 0]

\* Map.has(id)
MapHas(m, id) == id \in Ids /\ m[id] # 0

\* Map.delete(id)
MapDelete(m, id) == [k \in Ids |-> IF k = id THEN 0 ELSE m[k]]

\* Map.set(id, c)
MapSet(m, id, c) == [k \in Ids |-> IF k = id THEN c ELSE m[k]]

\* the callers whose closures the Map holds
MapOwners(m) == {m[k] : k \in Ids} \ {0}

\* The part of the state handleResponse and rejectPendingRequests work on.
ClientState(pend, tm, cs) == [pend |-> pend, timer |-> tm, calls |-> cs]

\* clearTimeout(request.timeout)
ClearTimeout(tm, c) == [tm EXCEPT ![c] = [st |-> "cleared", left |-> 0]]

\* handleResponse matching by send order: the oldest outstanding request is
\* resolved whatever id the response carries
HandleResponseOldest(st, response) ==
  IF response.id # "" /\ MapOwners(st.pend) # {}
  THEN LET c == CHOOSE x \in MapOwners(st.pend) : \A y \in MapOwners(st.pend) : x <= y
       IN ClientState(MapDelete(st.pend, st.calls[c].id),
                      ClearTimeout(st.timer, c),
                      Resolve(st.calls, c, response))
  ELSE st

\* ----------------------------------------------- handleResponse, lines 87-94
HandleResponse(st, response) ==
  IF response.id # "" /\ MapHas(st.pend, response.id)
  THEN LET c == st.pend[response.id]
       IN ClientState(MapDelete(st.pend, response.id),
                      ClearTimeout(st.timer, c),
                      Resolve(st.calls, c, response))
  ELSE st

\* the for loop of handleProcessOutput over the parsed lines
RECURSIVE HandleResponses(_, _)
HandleResponses(st, responses) ==
  IF responses = <<>> THEN st
  ELSE HandleResponses(HandleResponse(st, Head(responses)), Tail(responses))

\* --------------------------------------- rejectPendingRequests, lines 96-102
RECURSIVE RejectEach(_, _, _)
RejectEach(st, left, message) ==
  IF left = {} THEN st
  ELSE LET c == CHOOSE x \in left : TRUE
       IN RejectEach(ClientState(st.pend, ClearTimeout(st.timer, c),
                                 Reject(st.calls, c, message)),
                     left \ {c}, message)

RejectPendingRequests(st, message) ==
  LET after == RejectEach(st, MapOwners(st.pend), message)
  IN ClientState(EmptyMap, after.timer, after.calls)

\* ------------------------------------------ handleProcessOutput, lines 68-85
\* The whole handler on one chunk: the buffer it keeps, the client state after
\* every complete line was handled, and the responses it dispatched.
HandleProcessOutput(buffer, st, data) ==
  LET lines     == AppendAndSplit(buffer, data)
      responses == ParsedResponses(CompleteLines(lines))
  IN [buffer |-> KeptFragment(lines),
      st |-> HandleResponses(st, responses),
      responses |-> responses]

\* the line a subprocess writes to answer request id with body
ReplyLine(id, body) == <<"{", id>> \o body \o <<"}", NL>>

\* -------------------------------------------------------------------- Init
NewCall == [st |-> "new", name |-> Undef, id |-> "", proc |-> 0, settles |-> 0,
            waited |-> 0, echo |-> "", resp |-> NoResponse, result |-> NoResult]

NoTimer == [st |-> "none", left |-> 0]

\* ---------------------------------------------- ChatService: initial values
Msgs == 1..MaxMsgs
DefaultSession == "default-session"
SessionIds == {DefaultSession, "s1"}
ClientKinds == {"MCPClient", "LocalMacOSClient"}

\* sessions.get(id) of an id the Map does not hold
NoSession == [createdAt |-> 0, lastActivity |-> 0, messageCount |-> 0]

\* a processMessage that has returned nothing (yet)
NoChatResponse == [type |-> Undef, content |-> <<>>, imageData |-> Undef,
                   toolName |-> Undef, sessionId |-> Undef]

\* a chat_message event that has not arrived: the locals of its handler, of
\* processMessage, executeTools and continueMultiStepWorkflow, and the
\* bookkeeping of what the handler did
NewHandler ==
  [pc |-> "idle", message |-> <<>>, sessionId |-> Undef,
   k |-> 0, toolCalls |-> <<>>, toolResults |-> <<>>,
   hasScreenshot |-> FALSE, screenshotData |-> Undef,
   nextToolCalls |-> <<>>, nextToolResults |-> <<>>,
   response |-> NoChatResponse, rejected |-> FALSE, emitted |-> <<>>,
   decisions |-> 0, prompts |-> <<>>, followUps |-> <<>>, log |-> <<>>,
   raised |-> <<>>]

\* ----------------------------------------------- LLMService: initial values
LLMCalls == 1..MaxLLMCalls

\* a call of callLLMWithRetry that has not been made: attempt, lastError and
\* the delay timer (ms left, ms slept), the value it settles with, and the
\* bookkeeping of the API invocations and of the delays it waited
NoLLMError == [attempt |-> 0, kind |-> "none"]
NoLLMResponse == [ok |-> FALSE, content |-> <<>>, requiresTools |-> FALSE, toolCalls |-> <<>>]

NewLLMCall ==
  [pc |-> "idle", attempt |-> 0, lastError |-> NoLLMError, left |-> 0, slept |-> 0,
   response |-> NoLLMResponse, thrown |-> NoLLMError, invoked |-> 0, delays |-> <<>>]

Runs == 1..MaxRuns

\* a run of processMessage that has not started
NewRun == [pc |-> "idle", sessionId |-> Undef, pass |-> 0, context |-> <<>>]

LLMIdle ==
  /\ runs = [r \in Runs |-> NewRun]
  /\ swept = {}
  /\ inbound = [s \in SessionIds |-> 0]
  /\ conversations = [s \in SessionIds |-> <<>>]
  /\ llm = [c \in LLMCalls |-> NewLLMCall]
  /\ appended = [s \in SessionIds |-> <<>>]
  /\ followUp = [s \in SessionIds |-> [called |-> FALSE, response |-> NoLLMResponse]]

ChatIdle ==
  /\ sessions = [s \in SessionIds |-> NoSession]
  /\ clock = 0
  /\ chat = [m \in Msgs |-> NewHandler]

\* the fields of a new MCPClient, lines 7-11, and nothing spawned or called
MCPIdle ==
  /\ mcpProcess = 0
  /\ connected = FALSE
  /\ tools = <<>>
  /\ responseBuffer = <<>>
  /\ pendingRequests = EmptyMap
  /\ timer = [c \in CallIds |-> NoTimer]
  /\ calls = [c \in CallIds |-> NewCall]
  /\ conn = [p \in Procs |-> [pc |-> "idle", left |-> 0]]
  /\ procs = [p \in Procs |-> "none"]
  /\ stdin = [p \in Procs |-> <<>>]
  /\ owed = {}
  /\ wire = [p \in Procs |-> <<>>]
  /\ replied = [c \in CallIds |-> ""]
  /\ thisMs = {}
  /\ received = <<>>
  /\ handled = <<>>

\* ------------------------------------------------- useSocket: initial values
Sockets == 1..MaxSockets

\* The hook after its first render and its effect (lines 11-20 and 220-221):
\* connectSocket() of the first render made the first socket, which is
\* connecting; that connectSocket sees socket = null.
HookMounted ==
  /\ socket = 0
  /\ sockets = [i \in Sockets |->
                  IF i = 1 THEN [status |-> "connecting", closure |-> 0]
                  ELSE [status |-> "none", closure |-> 0]]
  /\ reconnectAttempts = 0
  /\ reconnectTimeout = 0
  /\ timers = <<>>
  /\ reconnects = 0

Init ==
  /\ MCPIdle
  /\ serverTools \in ServerCatalogs
  /\ mcpClient = "MCPClient"
  /\ ChatIdle
  /\ LLMIdle
  /\ openai = TRUE
  /\ HookMounted

\* ------------------------------------------------------------------ timers
\* the delays left on the timers that are still armed
ArmedLefts ==
  {timer[c].left : c \in {x \in CallIds : timer[x].st = "armed"}}
  \cup {conn[p].left : p \in {x \in Procs : conn[x].pc = "settling"}}

SetMin(S) == CHOOSE x \in S : \A y \in S : x <= y

\* the steps the clock may take: up to the next timer that is due
TickSteps ==
  IF ArmedLefts = {} THEN {TickMs}
  ELSE {Min(TickMs, SetMin(ArmedLefts)), SetMin(ArmedLefts)}

\* Time passes.  A timer that is due fires before the clock moves on, and so
\* does the 'error' event of a process that could not start (it is emitted on
\* the next tick of the event loop); a caller's stopwatch (waited) runs while
\* it is suspended.
Tick(d) ==
  /\ d \in TickSteps
  /\ d > 0
  /\ \A p \in Procs : procs[p] # "doomed"
  /\ timer' = [c \in CallIds |->
                 IF timer[c].st = "armed"
                 THEN [timer[c] EXCEPT !.left = timer[c].left - d] ELSE timer[c]]
  /\ conn' = [p \in Procs |->
                IF conn[p].pc = "settling"
                THEN [conn[p] EXCEPT !.left = conn[p].left - d] ELSE conn[p]]
  /\ calls' = [c \in CallIds |->
                 IF calls[c].st = "awaiting"
                 THEN [calls[c] EXCEPT !.waited = calls[c].waited + d] ELSE calls[c]]
  /\ thisMs' = {}
  /\ UNCHANGED <<mcpProcess, connected, tools, responseBuffer, pendingRequests,
                 procs, stdin, owed, wire, replied, serverTools, received, handled>>

\* ------------------------------------------------------ connect, lines 13-54
\* spawn(), the four handlers, and the start of the settling delay.  spawn()
\* reports a failure to start through the 'error' event, not by throwing.
Connect(p, starts) ==
  /\ procs[p] = "none"
  /\ \A q \in Procs : q < p => procs[q] # "none"
  /\ mcpProcess' = p
  /\ procs' = [procs EXCEPT ![p] = IF starts THEN "running" ELSE "doomed"]
  /\ conn' = [conn EXCEPT ![p] = [pc |-> "settling", left |-> SettleDelayMs]]
  /\ UNCHANGED <<connected, tools, responseBuffer, pendingRequests, timer, calls,
                 stdin, owed, wire, replied, serverTools, thisMs, received, handled>>

\* loadTools, lines 104-228
LoadTools == HardcodedTools

\* connect, lines 56-60: the delay is over; loadTools(), connected = true.
ConnectSettled(p) ==
  /\ conn[p].pc = "settling"
  /\ conn[p].left = 0
  /\ tools' = LoadTools
  /\ connected' = TRUE
  /\ conn' = [conn EXCEPT ![p].pc = "resolved"]
  /\ UNCHANGED <<mcpProcess, responseBuffer, pendingRequests, timer, calls, procs,
                 stdin, owed, wire, replied, serverTools, thisMs, received, handled>>

\* -------------------------- the 'exit' and 'error' handlers, lines 32-42
OnProcessEnd(st, message) == RejectPendingRequests(st, message)

ProcessEnded(p, message) ==
  LET st == OnProcessEnd(ClientState(pendingRequests, timer, calls), message)
  IN /\ procs' = [procs EXCEPT ![p] = "dead"]
     /\ connected' = FALSE
     /\ pendingRequests' = st.pend
     /\ timer' = st.timer
     /\ calls' = st.calls
     /\ owed' = {o \in owed : o[1] # p}
     /\ UNCHANGED <<mcpProcess, tools, responseBuffer, conn, stdin, wire, replied,
                    serverTools, thisMs, received, handled>>

\* a spawned process exits, of itself or after kill()
ProcessExit(p) ==
  /\ procs[p] \in {"running", "killed"}
  /\ ProcessEnded(p, ErrExited)

\* a process that could not be started emits 'error' and no 'exit'
ProcessError(p) ==
  /\ procs[p] = "doomed"
  /\ ProcessEnded(p, ErrSpawn)

\* ------------------------------------------------- listTools, lines 230-232
\* returns this.tools; it reads and writes nothing else
ListTools == tools

\* isConnected, lines 324-326
IsConnected == connected

\* ------------------------------------------------ disconnect, lines 328-336
Disconnect ==
  LET st == RejectPendingRequests(ClientState(pendingRequests, timer, calls),
                                  ErrDisconnected)
  IN /\ procs' = IF mcpProcess # 0 /\ procs[mcpProcess] = "running"
                 THEN [procs EXCEPT ![mcpProcess] = "killed"] ELSE procs
     /\ mcpProcess' = 0
     /\ connected' = FALSE
     /\ pendingRequests' = st.pend
     /\ timer' = st.timer
     /\ calls' = st.calls
     /\ UNCHANGED <<tools, responseBuffer, conn, stdin, owed, wire, replied,
                    serverTools, thisMs, received, handled>>

\* ---------------------------------------------- waitForResponse, lines 313-322
\* the timer callback, lines 315-318
TimeoutCallback(st, c) ==
  ClientState(MapDelete(st.pend, st.calls[c].id),
              [st.timer EXCEPT ![c] = [st |-> "fired", left |-> 0]],
              Reject(st.calls, c, ErrTimeout))

\* waitForResponse arming its timer with the delay of connect()
WaitForResponseShort(st, c, id) ==
  ClientState(MapSet(st.pend, id, c),
              [st.timer EXCEPT ![c] = [st |-> "armed", left |-> SettleDelayMs]],
              st.calls)

\* setTimeout and Map.set, lines 315-320
WaitForResponse(st, c, id) ==
  ClientState(MapSet(st.pend, id, c),
              [st.timer EXCEPT ![c] = [st |-> "armed", left |-> RequestTimeoutMs]],
              st.calls)

RequestTimeout(c) ==
  /\ timer[c].st = "armed"
  /\ timer[c].left = 0
  /\ LET st == TimeoutCallback(ClientState(pendingRequests, timer, calls), c)
     IN /\ pendingRequests' = st.pend
        /\ timer' = st.timer
        /\ calls' = st.calls
  /\ UNCHANGED <<mcpProcess, connected, tools, responseBuffer, conn, procs, stdin,
                 owed, wire, replied, serverTools, thisMs, received, handled>>

\* --------------------------------------------------- callTool, lines 234-264
\* requestId = Date.now() + Math.random(): a number no earlier millisecond
\* produced; two calls in the same millisecond may draw the same one.
RequestIds(c) == {IdChars[c]} \cup {calls[d].id : d \in thisMs}

\* lines 235-237: the guard throws out of callTool
NotConnected == ~connected \/ mcpProcess = 0

\* stdin.writable of the owned process
StdinWritable == procs[mcpProcess] = "running"

\* the request of lines 244-252 as it is written to stdin
ToolsCallRequest(id) == [method |-> "tools/call", id |-> id]

\* The request is written (line 261) and then the Pending Request is
\* registered (line 264 -> 320).  echo # <<>> is a stdin whose write() emits
\* the answer on stdout before it returns, as the stdin of
\* __tests__/mcpClient.test.ts does; a pipe to a real process has echo = <<>>.
WriteThenRegister(st, buffer, c, id, echo) ==
  LET out == HandleProcessOutput(buffer, st, ReplyLine(id, echo))
  IN IF echo = <<>>
     THEN [buffer |-> buffer, st |-> WaitForResponse(st, c, id), responses |-> <<>>]
     ELSE [buffer |-> out.buffer, st |-> WaitForResponse(out.st, c, id),
           responses |-> out.responses]

CallTool(c, name, id, echo) ==
  /\ calls[c].st = "new"
  /\ \A d \in CallIds : d < c => calls[d].st # "new"
  /\ IF NotConnected
     THEN /\ id = IdChars[c] /\ echo = <<>>
          /\ calls' = [calls EXCEPT ![c] =
                         [@ EXCEPT !.st = "threw", !.name = name,
                                   !.result = FailedResult(ErrNotConnected, name)]]
          /\ UNCHANGED <<responseBuffer, pendingRequests, timer, stdin, owed,
                         replied, thisMs, received, handled>>
     ELSE IF ~StdinWritable
     THEN /\ id = IdChars[c] /\ echo = <<>>
          /\ calls' = [calls EXCEPT ![c] =
                         [@ EXCEPT !.st = "returned", !.name = name,
                                   !.result = FailedResult(ErrNotWritable, name)]]
          /\ UNCHANGED <<responseBuffer, pendingRequests, timer, stdin, owed,
                         replied, thisMs, received, handled>>
     ELSE /\ id \in RequestIds(c)
          /\ LET started == [calls EXCEPT ![c] =
                               [@ EXCEPT !.st = "awaiting", !.name = name,
                                         !.id = id, !.proc = mcpProcess,
                                         !.echo = IF echo = <<>> THEN "" ELSE echo[1]]]
                 out == WriteThenRegister(
                          ClientState(pendingRequests, timer, started),
                          responseBuffer, c, id, echo)
             IN /\ calls' = out.st.calls
                /\ pendingRequests' = out.st.pend
                /\ timer' = out.st.timer
                /\ responseBuffer' = out.buffer
                /\ handled' = handled \o out.responses
                /\ received' = IF echo = <<>> THEN received
                               ELSE received \o ReplyLine(id, echo)
                /\ stdin' = [stdin EXCEPT ![mcpProcess] = Append(@, ToolsCallRequest(id))]
                /\ owed' = IF echo = <<>> THEN owed \cup {<<mcpProcess, c>>} ELSE owed
                /\ replied' = IF echo = <<>> THEN replied
                              ELSE [replied EXCEPT ![c] = echo[1]]
                /\ thisMs' = thisMs \cup {c}
  /\ UNCHANGED <<mcpProcess, connected, tools, conn, procs, wire, serverTools>>

\* ------------------------------------------------------------ the subprocess
\* Process p answers request c with one line, which the stdout 'data' handler
\* (lines 45-47) receives as one chunk.
Reply(p, c, kind) ==
  /\ procs[p] \in {"running", "killed"}
  /\ <<p, c>> \in owed
  /\ wire[p] = <<>>
  /\ LET out == HandleProcessOutput(responseBuffer,
                                    ClientState(pendingRequests, timer, calls),
                                    ReplyLine(calls[c].id, <<kind>>))
     IN /\ responseBuffer' = out.buffer
        /\ pendingRequests' = out.st.pend
        /\ timer' = out.st.timer
        /\ calls' = out.st.calls
  /\ owed' = owed \ {<<p, c>>}
  /\ replied' = [replied EXCEPT ![c] = kind]
  /\ UNCHANGED <<mcpProcess, connected, tools, conn, procs, stdin, wire,
                 serverTools, thisMs, received, handled>>

\* ---------------------------------------------------------------------- Next
Next ==
  \/ \E p \in Procs, starts \in BOOLEAN : Connect(p, starts) /\ UNCHANGED <<chatVars, llmVars, runVars, hookVars>>
  \/ \E p \in Procs : ConnectSettled(p) /\ UNCHANGED <<chatVars, llmVars, runVars, hookVars>>
  \/ \E p \in Procs : ProcessExit(p) /\ UNCHANGED <<chatVars, llmVars, runVars, hookVars>>
  \/ \E p \in Procs : ProcessError(p) /\ UNCHANGED <<chatVars, llmVars, runVars, hookVars>>
  \/ Disconnect /\ UNCHANGED <<chatVars, llmVars, runVars, hookVars>>
  \/ \E c \in CallIds, name \in ToolNames, id \in Ids,
        echo \in {<<>>} \cup {<<k>> : k \in EchoKinds} :
       CallTool(c, name, id, echo) /\ UNCHANGED <<chatVars, llmVars, runVars, hookVars>>
  \/ \E c \in CallIds : RequestTimeout(c) /\ UNCHANGED <<chatVars, llmVars, runVars, hookVars>>
  \/ \E p \in Procs, c \in CallIds, kind \in ReplyKinds : Reply(p, c, kind) /\ UNCHANGED <<chatVars, llmVars, runVars, hookVars>>
  \/ \E d \in TickSteps : Tick(d) /\ UNCHANGED <<chatVars, llmVars, runVars, hookVars>>

Spec == Init /\ [][Next]_vars

\* ---------------------------------------------------------------- framing
\* The subprocess writes whole lines into its stdout pipe; the pipe hands them
\* to the 'data' handler in chunks cut anywhere.

\* bodies of the answers written in the framing specification: a text, and a
\* text with the non-ASCII character U+00E9 in it
FrameBodies == {<<"t">>, <<"t", LeadByte, ContByte>>}

\* lines that answer no request: not JSON, blank, and an object without id
NoiseLines == {<<"}", NL>>, <<SP, NL>>, <<"{", "t", "}", NL>>}

CountNL(bytes) == Cardinality({k \in 1..Len(bytes) : bytes[k] = NL})

LinesWritten == CountNL(received) + CountNL(wire[1]) + CountNL(wire[2])

\* process p answers request c
EmitReply(p, c, body) ==
  /\ procs[p] = "running"
  /\ <<p, c>> \in owed
  /\ LinesWritten < MaxLines
  /\ wire' = [wire EXCEPT ![p] = @ \o ReplyLine(calls[c].id, body)]
  /\ owed' = owed \ {<<p, c>>}
  /\ replied' = [replied EXCEPT ![c] = body[1]]
  /\ UNCHANGED <<mcpProcess, connected, tools, responseBuffer, pendingRequests,
                 timer, calls, conn, procs, stdin, serverTools, thisMs, received,
                 handled>>

\* process p writes a line that answers nothing
EmitNoise(p, line) ==
  /\ procs[p] = "running"
  /\ LinesWritten < MaxLines
  /\ wire' = [wire EXCEPT ![p] = @ \o line]
  /\ UNCHANGED <<mcpProcess, connected, tools, responseBuffer, pendingRequests,
                 timer, calls, conn, procs, stdin, owed, replied, serverTools,
                 thisMs, received, handled>>

\* the stdout 'data' handler, lines 45-47: the first n bytes in the pipe of
\* process p arrive as one chunk
StdoutData(p, n) ==
  /\ n \in 1..Len(wire[p])
  /\ LET data == SubSeq(wire[p], 1, n)
         out  == HandleProcessOutput(responseBuffer,
                                     ClientState(pendingRequests, timer, calls),
                                     data)
     IN /\ wire' = [wire EXCEPT ![p] = SubSeq(@, n + 1, Len(@))]
        /\ responseBuffer' = out.buffer
        /\ pendingRequests' = out.st.pend
        /\ timer' = out.st.timer
        /\ calls' = out.st.calls
        /\ handled' = handled \o out.responses
        /\ received' = received \o data
  /\ UNCHANGED <<mcpProcess, connected, tools, conn, procs, stdin, owed, replied,
                 serverTools, thisMs>>

\* One subprocess, and no more time than the settling delay of connect():
\* the requests stay outstanding while the output is framed.
NextFraming ==
  \/ Connect(1, TRUE) /\ UNCHANGED <<chatVars, llmVars, runVars, hookVars>>
  \/ ConnectSettled(1) /\ UNCHANGED <<chatVars, llmVars, runVars, hookVars>>
  \/ \E c \in CallIds, name \in ToolNames : CallTool(c, name, IdChars[c], <<>>) /\ UNCHANGED <<chatVars, llmVars, runVars, hookVars>>
  \/ \E p \in Procs, c \in CallIds, body \in FrameBodies : EmitReply(p, c, body) /\ UNCHANGED <<chatVars, llmVars, runVars, hookVars>>
  \/ \E p \in Procs, line \in NoiseLines : EmitNoise(p, line) /\ UNCHANGED <<chatVars, llmVars, runVars, hookVars>>
  \/ \E p \in Procs, n \in 1..(7 * MaxLines) : StdoutData(p, n) /\ UNCHANGED <<chatVars, llmVars, runVars, hookVars>>
  \/ \E d \in TickSteps : conn[1].pc = "settling" /\ Tick(d) /\ UNCHANGED <<chatVars, llmVars, runVars, hookVars>>

SpecFraming == Init /\ [][NextFraming]_vars

\* ------------------------------------------------------- whole-line feeding
\* the chunks of a byte sequence fed one whole line at a time: each line with
\* its newline, and then what follows the last newline
RECURSIVE WholeLines(_)
WholeLines(bytes) ==
  IF \A k \in 1..Len(bytes) : bytes[k] # NL
  THEN IF bytes = <<>> THEN <<>> ELSE <<bytes>>
  ELSE LET k == CHOOSE j \in 1..Len(bytes) :
                  bytes[j] = NL /\ \A m \in 1..(j-1) : bytes[m] # NL
       IN <<SubSeq(bytes, 1, k)>> \o WholeLines(SubSeq(bytes, k+1, Len(bytes)))

\* what handleProcessOutput dispatches and keeps when fed these chunks in turn
RECURSIVE FeedChunks(_, _, _)
FeedChunks(buffer, dispatched, chunks) ==
  IF chunks = <<>> THEN [buffer |-> buffer, responses |-> dispatched]
  ELSE LET lines == AppendAndSplit(buffer, Head(chunks))
       IN FeedChunks(KeptFragment(lines),
                     dispatched \o ParsedResponses(CompleteLines(lines)),
                     Tail(chunks))

\* C5: however the stdout bytes were cut into chunks, handleProcessOutput has
\* dispatched the responses, in the order, that feeding the same bytes one
\* whole line at a time dispatches, and the buffer holds exactly the text
\* after the last newline.
C5_ChunkingEquivalence ==
  LET whole == FeedChunks(<<>>, <<>>, WholeLines(received))
  IN /\ handled = whole.responses
     /\ responseBuffer = whole.buffer

\* ------------------------------------------------------------------ claims
Awaiting(c) == calls[c].st = "awaiting"
Settled(c) == calls[c].settles >= 1
TimedOut(c) == calls[c].result.error = ErrTimeout
ResolvedWithResponse(c) == calls[c].resp # NoResponse

\* no two requests of the behaviour drew the same id
DistinctIds ==
  \A c, d \in CallIds : (c # d /\ calls[c].id # "") => calls[c].id # calls[d].id

\* C1: when the requests have distinct ids, a caller that is resumed with a
\* response is resumed with the one the subprocess wrote for its own request
\* (same id, same body), in whatever order the answers arrive; and an answer
\* that arrives after the request was registered never leaves its caller
\* suspended.
C1_ResponseMatchesOwnId ==
  DistinctIds =>
    \A c \in CallIds :
      /\ ResolvedWithResponse(c) =>
           calls[c].resp = [id |-> calls[c].id, body |-> <<replied[c]>>]
      /\ (replied[c] # "" /\ calls[c].echo = "") => ~Awaiting(c)

\* two requests outstanding on one subprocess, the second one answered first
C1_Witness ==
  /\ DistinctIds
  /\ Awaiting(1)
  /\ ResolvedWithResponse(2)
  /\ calls[1].proc = calls[2].proc
  /\ calls[2].result.success

\* C2: a Pending Request is settled exactly once: resolve or reject is called
\* at most once per caller, a settled caller has neither an armed timer nor an
\* entry in the map, and an entry leaves the map only in the step that settles
\* its caller (its response, its timer, or the exit, error or disconnect).
C2_SettledExactlyOnce ==
  /\ [](\A c \in CallIds :
          /\ calls[c].settles <= 1
          /\ Settled(c) => (timer[c].st # "armed" /\ c \notin MapOwners(pendingRequests)))
  /\ [][\A c \in CallIds :
          (c \in MapOwners(pendingRequests) /\ c \notin MapOwners(pendingRequests'))
            => (calls[c].settles = 0 /\ calls'[c].settles = 1)]_vars

\* C3: a request times out exactly 45 s after callTool registered it: a caller
\* that got the timeout failure waited 45000 ms, holds a Tool Result with
\* success = false, and its id is not in the map; a suspended caller has
\* waited no longer than that, with its timer armed for the rest of the 45 s.
C3_TimeoutAfterDeadline ==
  \A c \in CallIds :
    /\ TimedOut(c) =>
         /\ calls[c].st = "returned"
         /\ ~calls[c].result.success
         /\ calls[c].waited = 45 * 1000
         /\ ~MapHas(pendingRequests, calls[c].id)
    /\ Awaiting(c) =>
         /\ timer[c].st = "armed"
         /\ calls[c].waited + timer[c].left = 45 * 1000

\* the first request was never answered and timed out while its subprocess
\* lives; a later request is outstanding, alone in the map
C3_Witness ==
  /\ TimedOut(1)
  /\ replied[1] = ""
  /\ procs[calls[1].proc] = "running"
  /\ Awaiting(2)
  /\ calls[2].waited = 0
  /\ MapOwners(pendingRequests) = {2}

\* C4: in the step in which a subprocess ends (exit or error), every caller
\* that was waiting fails with that one error, the map becomes empty and
\* isConnected() false; and a callTool issued while the owned subprocess is
\* dead throws 'not connected' and writes nothing.
C4_ExitFailsAllOutstanding ==
  [][/\ \A p \in Procs :
          (procs[p] # "dead" /\ procs'[p] = "dead") =>
            /\ \A c \in CallIds :
                 Awaiting(c) => /\ calls'[c].st = "returned"
                                /\ calls'[c].result.error \in {ErrExited, ErrSpawn}
            /\ pendingRequests' = EmptyMap
            /\ ~connected'
     /\ \A c \in CallIds :
          (/\ calls[c].st = "new" /\ calls'[c].st # "new"
           /\ mcpProcess # 0 /\ procs[mcpProcess] = "dead") =>
            /\ calls'[c].st = "threw"
            /\ calls'[c].result.error = ErrNotConnected
            /\ stdin' = stdin]_vars

\* the handshake as it appears on the stdin of process p
HandshakeWritten(p) ==
  /\ Len(stdin[p]) >= 3
  /\ stdin[p][1].method = "initialize"
  /\ stdin[p][2].method = "notifications/initialized"
  /\ stdin[p][3].method = "tools/list"

\* C6: a connect() that has completed wrote initialize, then
\* notifications/initialized, then tools/list to the stdin of its subprocess.
C6_HandshakeBeforeConnected ==
  \A p \in Procs : conn[p].pc = "resolved" => HandshakeWritten(p)

\* C7: once connected, listTools() returns the catalog the server reports.
C7_ListToolsIsServerCatalog ==
  connected => ListTools = serverTools

\* C8: a callTool whose answer is emitted during the write of its request
\* returns success = true with the text of that answer.
C8_AnswerDuringWriteIsDelivered ==
  \A c \in CallIds :
    calls[c].echo # "" =>
      /\ calls[c].st = "returned"
      /\ calls[c].result.success
      /\ calls[c].result.content = "text of the response"

\* C9: isConnected() is never true while the owned subprocess is dead, and no
\* connect() completes for a subprocess that is dead.
C9_NotConnectedToDeadProcess ==
  /\ connected => (mcpProcess # 0 => procs[mcpProcess] # "dead")
  /\ [][\A p \in Procs :
          (conn[p].pc = "settling" /\ conn'[p].pc = "resolved") => procs[p] # "dead"]_vars

\* C10: from disconnect() until the next connect() no caller is suspended, the
\* map is empty and nothing is written to any subprocess; in the step of
\* disconnect() isConnected() becomes false and the owned subprocess no longer
\* runs.
C10_DisconnectFailsAll ==
  [][(mcpProcess' = 0 /\ procs[1] # "none") =>
       /\ \A c \in CallIds : calls'[c].st # "awaiting"
       /\ pendingRequests' = EmptyMap
       /\ stdin' = stdin
       /\ mcpProcess # 0 => (~connected' /\ procs'[mcpProcess] # "running")]_vars

\* =========================================================================
\* ChatService (chatService.ts, part_009 lines 351-765), LLMService as
\* ChatService sees it (llmService.ts) and the chat_message handler of
\* server.ts.  A text is the sequence of its characters.
\* =========================================================================

\* ------------------------------------------------------ String.toLowerCase
UpperCase ==
  <<"A", "B", "C", "D", "E", "F", "G", "H", "I", "J", "K", "L", "M",
    "N", "O", "P", "Q", "R", "S", "T", "U", "V", "W", "X", "Y", "Z">>
LowerCase ==
  <<"a", "b", "c", "d", "e", "f", "g", "h", "i", "j", "k", "l", "m",
    "n", "o", "p", "q", "r", "s", "t", "u", "v", "w", "x", "y", "z">>

ToLowerChar(ch) ==
  IF \E i \in DOMAIN UpperCase : UpperCase[i] = ch
  THEN LowerCase[CHOOSE i \in DOMAIN UpperCase : UpperCase[i] = ch]
  ELSE ch

ToLowerCase(s) == [i \in 1..Len(s) |-> ToLowerChar(s[i])]

\* String.includes
Includes(s, sub) ==
  \E i \in 1..(Len(s) - Len(sub) + 1) : SubSeq(s, i, i + Len(sub) - 1) = sub

\* --------------------------------------- isMultiStepRequest, lines 502-511
multiStepIndicators ==
  <<<<"t", "h", "e", "n">>,
   <<"a", "f", "t", "e", "r">>,
   <<"n", "e", "x", "t">>,
   <<"a", "n", "d", " ", "t", "h", "e", "n">>,
   <<"f", "o", "l", "l", "o", "w", "e", "d", " ", "b", "y">>,
   <<"s", "u", "b", "s", "e", "q", "u", "e", "n", "t", "l", "y">>,
   <<"n", "a", "v", "i", "g", "a", "t", "e", " ", "t", "o">>,
   <<"o", "p", "e", "n">>,
   <<"f", "i", "n", "d">>,
   <<"e", "x", "p", "l", "o", "r", "e">>,
   <<"m", "u", "l", "t", "i", "p", "l", "e">>,
   <<"s", "t", "e", "p", "s">>,
   <<"f", "i", "r", "s", "t">>,
   <<"s", "e", "c", "o", "n", "d">>,
   <<"f", "i", "n", "a", "l", "l", "y">>,
   <<",">>,
   <<"a", "n", "d", " ", "a", "l", "s", "o">>>>

IsMultiStepRequest(message) ==
  LET lowerMessage == ToLowerCase(message)
  IN \E i \in DOMAIN multiStepIndicators :
       Includes(lowerMessage, multiStepIndicators[i])

\* --------------------------------------------------------------- the inputs
\* the texts a user sends: "tap", "Then" and "a,b"
Messages == {<<"t", "a", "p">>, <<"T", "h", "e", "n">>, <<"a", ",", "b">>}

\* data.message of a chat_message event: a string, or a value of another type
MessageValues ==
  {[type |-> "string", text |-> t] : t \in Messages \cup {<<>>}}
    \cup {[type |-> "undefined", text |-> <<>>], [type |-> "number", text |-> <<>>]}

\* the payload of a chat_message event; a client may send none at all
NoData == [present |-> FALSE, message |-> [type |-> "undefined", text |-> <<>>],
           sessionId |-> Undef]
ChatData ==
  {NoData} \cup {[present |-> TRUE, message |-> v, sessionId |-> sid] :
                   v \in MessageValues, sid \in {Undef, "s1"}}

\* the tools the model asks for
CallableTools == {ScreenTool, ClickTool}
ToolCall(name) == [name |-> name, arguments |-> <<>>]
ToolCallLists ==
  UNION {[1..n -> {ToolCall(t) : t \in CallableTools}] : n \in 1..MaxBatch}

\* --------------------------- LLMService.processMessage, as its caller sees it
\* an LLMResponse (llmService.ts 156-166), or the error it throws when no
\* provider is configured or every attempt failed (lines 56, 178); ok = FALSE
\* stands for the rejected promise
LLMText == "text of the model"
LLMThrown == [ok |-> FALSE, content |-> <<>>, requiresTools |-> FALSE, toolCalls |-> <<>>]
LLMPlain == [ok |-> TRUE, content |-> <<LLMText>>, requiresTools |-> FALSE, toolCalls |-> <<>>]
LLMTools(l) ==
  [ok |-> TRUE, content |-> <<"Executing tools...">>, requiresTools |-> TRUE, toolCalls |-> l]
DecisionReplies == {LLMThrown, LLMPlain} \cup {LLMTools(l) : l \in ToolCallLists}

\* ------------------------ LLMService.generateFollowUpResponse, lines 284-354
\* the catch, lines 347-353, when the model call failed
FollowUpRethrown == LLMThrown
FollowUpCaught ==
  [ok |-> TRUE, content |-> <<"Task completed.">>, requiresTools |-> FALSE, toolCalls |-> <<>>]

\* a follow-up that hands on the tool calls of the model
GenerateFollowUpWithTools(apiOk) ==
  IF apiOk THEN LLMTools(<<ToolCall(ScreenTool)>>) ELSE FollowUpCaught

GenerateFollowUpResponse(apiOk) ==
  IF apiOk
  THEN [ok |-> TRUE, content |-> <<"summary of the model">>, requiresTools |-> FALSE,
        toolCalls |-> <<>>]
  ELSE FollowUpCaught

\* ------------------------------------------------ mcpClient.callTool(name)
\* What callTool of the client in use settles with: a Tool Result, or an
\* error thrown before its try block.
Returned(result) == [thrown |-> FALSE, error |-> Undef, result |-> result]
Threw(message) == [thrown |-> TRUE, error |-> message, result |-> NoResult]

\* MCPClient.callTool, part_009 lines 234-311: a server error, an image, a
\* text, or 'not connected'
MCPClientOutcomes(name) ==
  {Returned(ToolResultOf([id |-> "1", body |-> <<k>>], name)) : k \in {"e", "i", "t"}}
    \cup {Threw(ErrNotConnected)}

\* LocalMacOSClient.callTool, server.ts lines 243-304: its results carry no
\* toolName, and a screenshot carries imageData and content
LocalMacOSClientOutcomes(name) ==
  {Returned([success |-> TRUE,
             content |-> IF name = ScreenTool THEN "Screenshot taken successfully"
                                              ELSE "Mouse clicked",
             imageData |-> IF name = ScreenTool THEN "image data" ELSE Undef,
             error |-> Undef, toolName |-> Undef]),
   Returned([success |-> FALSE, content |-> Undef, imageData |-> Undef,
             error |-> "Error executing tool", toolName |-> Undef]),
   Threw("Local macOS client not connected")}

ToolOutcomes(client, name) ==
  IF client = "MCPClient" THEN MCPClientOutcomes(name)
  ELSE LocalMacOSClientOutcomes(name)

\* a JavaScript string that is neither undefined, null nor empty
Truthy(x) == x # Undef /\ x # ""

\* ----------------------------------------------------- the ChatResponses
Apology == "Sorry, I encountered an error processing your request. Please try again."

TextResponse(content, sessionId) ==
  [type |-> "text", content |-> content, imageData |-> Undef, toolName |-> Undef,
   sessionId |-> sessionId]

ImageResponse(content, imageData, sessionId) ==
  [type |-> "image", content |-> content, imageData |-> imageData,
   toolName |-> ScreenTool, sessionId |-> sessionId]

\* a promise of processMessage that rejects instead of resolving
Rejection(sessionId) ==
  [type |-> "rejected", content |-> <<>>, imageData |-> Undef, toolName |-> Undef,
   sessionId |-> sessionId]

\* the catch of processMessage returning the apology as a text
ProcessMessageCatchText(sessionId) == TextResponse(<<Apology>>, sessionId)

\* the catch of processMessage throwing again
ProcessMessageRethrow(sessionId) == Rejection(sessionId)

\* the catch of processMessage, lines 412-420
ProcessMessageCatch(sessionId) ==
  [type |-> "error", content |-> <<Apology>>, imageData |-> Undef, toolName |-> Undef,
   sessionId |-> sessionId]

\* the catch of continueMultiStepWorkflow, lines 612-624
ContinuationCatch(screenshotData, sessionId) ==
  ImageResponse(<<"I took a screenshot as requested, but encountered an issue">>,
                screenshotData, sessionId)

\* ------------------------------------- generateScreenshotMessage, lines 627-636
CountText(n) == <<"0", "1", "2", "3", "4">>[n + 1]
Failed(toolResults) == Cardinality({i \in DOMAIN toolResults : ~toolResults[i].success})

GenerateScreenshotMessage(toolResults) ==
  IF Failed(toolResults) = 0
  THEN <<"Here's a screenshot of your Mac desktop:">>
  ELSE <<"Screenshot captured, but", CountText(Failed(toolResults)),
         "operation(s) had issues.">>

\* ---------------------- the summary of continueMultiStepWorkflow, lines 574-600
\* one line per action, lines 580-586
ActionLabel(toolName) ==
  IF toolName = ScreenTool THEN "Screenshot captured"
  ELSE IF toolName = "remote_macos_open_application" THEN "Opened application"
  ELSE IF toolName = ClickTool THEN "Clicked on interface"
  ELSE IF toolName = "remote_macos_send_keys" THEN "Typed text"
  ELSE IF toolName = Undef THEN "undefined executed"
  ELSE "tool executed"

\* allResults.filter(r => r.success), in order
RECURSIVE Successful(_)
Successful(results) ==
  IF results = <<>> THEN <<>>
  ELSE (IF Head(results).success THEN <<Head(results)>> ELSE <<>>)
         \o Successful(Tail(results))

ActionsSummary(allResults) ==
  LET successfulActions == Successful(allResults)
  IN [i \in DOMAIN successfulActions |-> ActionLabel(successfulActions[i].toolName)]

ResponseContent(allResults) ==
  <<"Multi-step workflow in progress!">> \o ActionsSummary(allResults)
    \o <<IF Len(allResults) > 1 THEN "Let me continue with the next steps..."
         ELSE "Ready for the next step in your workflow!">>

\* ------------------------------------------- the chat_message handler, server.ts
\* bookkeeping: an exception was raised in a step of the handler
Raised(h, step) == [h EXCEPT !.raised = Append(@, step)]

Emitted(event, type) == [event |-> event, type |-> type]

\* !message || typeof message !== 'string', line 62
InvalidMessage(message) == message.type # "string" \/ message.text = <<>>

\* a handler that sends the response and leaves the indicator started
ServerRespondStillTyping(h, response) ==
  [h EXCEPT !.pc = "done", !.response = response,
            !.emitted = Append(@, Emitted("chat_response", response.type))]

\* lines 73-83: typing_stop, then chat_response with the response
ServerRespond(h, response) ==
  [h EXCEPT !.pc = "done", !.response = response,
            !.emitted = @ \o <<Emitted("typing_stop", Undef),
                               Emitted("chat_response", response.type)>>]

\* the catch, lines 85-93
ServerCatch(h) ==
  [h EXCEPT !.pc = "done",
            !.emitted = @ \o <<Emitted("typing_stop", Undef),
                               Emitted("chat_response", "error")>>]

\* the await of line 71 resumes with what processMessage settled with
Deliver(h, response) ==
  IF response.type = "rejected"
  THEN ServerCatch([h EXCEPT !.rejected = TRUE])
  ELSE ServerRespond(h, response)

\* --------------------------------------- updateSessionActivity, lines 638-653
\* an update that counts no message of a record it finds
UpdateSessionActivityUncounted(ss, sessionId, now) ==
  IF ss[sessionId].messageCount > 0
  THEN [ss EXCEPT ![sessionId].lastActivity = now]
  ELSE [ss EXCEPT ![sessionId] =
          [createdAt |-> now, lastActivity |-> now, messageCount |-> 1]]

\* an update that stamps createdAt of a record it finds
UpdateSessionActivityCreated(ss, sessionId, now) ==
  IF ss[sessionId].messageCount > 0
  THEN [ss EXCEPT ![sessionId].createdAt = now,
                  ![sessionId].messageCount = @ + 1]
  ELSE [ss EXCEPT ![sessionId] =
          [createdAt |-> now, lastActivity |-> now, messageCount |-> 1]]

UpdateSessionActivity(ss, sessionId, now) ==
  IF ss[sessionId].messageCount > 0
  THEN [ss EXCEPT ![sessionId].lastActivity = now,
                  ![sessionId].messageCount = @ + 1]
  ELSE [ss EXCEPT ![sessionId] =
          [createdAt |-> now, lastActivity |-> now, messageCount |-> 1]]

\* ------------------------------------------ the tool loops, lines 429-461, 549-572
\* the log of a handler: callTool invoked for tool call k of a pass, and
\* callTool settled with an outcome
CallEvent(pass, k, name) ==
  [ev |-> "call", pass |-> pass, k |-> k, name |-> name, outcome |-> Threw(Undef)]
ReturnEvent(pass, k, name, outcome) ==
  [ev |-> "return", pass |-> pass, k |-> k, name |-> name, outcome |-> outcome]

\* every tool call of the batch started in the first iteration
CallsSentAtOnce(toolCalls, k) ==
  IF k = 1 THEN [i \in 1..Len(toolCalls) |-> i] ELSE <<>>

\* iteration k awaits callTool of the k-th tool call, lines 433 and 553
CallsSentAt(toolCalls, k) == <<k>>

\* the pass of the handler: 1 in executeTools, 2 in continueMultiStepWorkflow
Pass(h) == IF h.decisions <= 1 THEN 1 ELSE 2
Batch(h) == IF Pass(h) = 1 THEN h.toolCalls ELSE h.nextToolCalls

Iteration(h, k) ==
  LET sent == CallsSentAt(Batch(h), k)
  IN [h EXCEPT !.pc = "tool", !.k = k,
               !.log = @ \o [i \in DOMAIN sent |->
                               CallEvent(Pass(h), sent[i], Batch(h)[sent[i]].name)]]

\* a catch that records nothing
CaughtToolErrorDropped(toolResults, toolCall, message) == toolResults

\* the catch of one iteration, lines 453-460 and 564-571
CaughtToolError(toolResults, toolCall, message) ==
  Append(toolResults, FailedResult(message, toolCall.name))

\* lines 433-444: the result is pushed, a screenshot with image data is kept
Collected(h, toolCall, outcome) ==
  IF outcome.thrown
  THEN [h EXCEPT !.toolResults = CaughtToolError(@, toolCall, outcome.error)]
  ELSE LET result == outcome.result
           shot == toolCall.name = ScreenTool /\ result.success
                     /\ Truthy(result.imageData)
       IN [h EXCEPT !.toolResults = Append(@, result),
                    !.hasScreenshot = IF shot THEN TRUE ELSE @,
                    !.screenshotData = IF shot THEN result.imageData ELSE @]

\* lines 553-571: the result is pushed with the name of the tool call
CollectedNext(h, toolCall, outcome) ==
  IF outcome.thrown
  THEN [h EXCEPT !.nextToolResults = CaughtToolError(@, toolCall, outcome.error)]
  ELSE [h EXCEPT !.nextToolResults =
          Append(@, [outcome.result EXCEPT !.toolName = toolCall.name])]

\* ------------------------------------------- executeTools, lines 463-499
\* a continuation after any batch that holds a screenshot
OnlyScreenshotExecutedAny(toolResults, hasScreenshot) == hasScreenshot

\* line 465
OnlyScreenshotExecuted(toolResults, hasScreenshot) ==
  Len(toolResults) = 1 /\ hasScreenshot

\* executeTools without its image branch
ExecuteToolsBranchText(originalMessage, toolResults, hasScreenshot, screenshotData) ==
  IF IsMultiStepRequest(originalMessage)
       /\ OnlyScreenshotExecuted(toolResults, hasScreenshot)
  THEN "continue" ELSE "followUp"

\* which of its three ends executeTools takes, lines 464-486
ExecuteToolsBranch(originalMessage, toolResults, hasScreenshot, screenshotData) ==
  LET wasMultiStepRequest == IsMultiStepRequest(originalMessage)
      onlyScreenshotExecuted == OnlyScreenshotExecuted(toolResults, hasScreenshot)
  IN IF wasMultiStepRequest /\ onlyScreenshotExecuted THEN "continue"
     ELSE IF hasScreenshot /\ Truthy(screenshotData) /\ ~wasMultiStepRequest
     THEN "image"
     ELSE "followUp"

\* continueMultiStepWorkflow ending the way executeTools does
ContinuationBranchAsFirst(originalMessage, nextToolResults, hasScreenshot, screenshotData) ==
  ExecuteToolsBranch(originalMessage, nextToolResults, hasScreenshot, screenshotData)

\* continueMultiStepWorkflow ends with its summary whatever its batch gave,
\* lines 574-600
ContinuationBranch(originalMessage, nextToolResults, hasScreenshot, screenshotData) ==
  "summary"

\* lines 521-529
ContinuationPrompt(originalMessage) ==
  <<"I have successfully taken a screenshot and now need to continue with">>
    \o originalMessage

\* what follows the last iteration of a batch
Classified(h, branch) ==
  IF branch = "continue"
  THEN [h EXCEPT !.pc = "deciding", !.k = 0, !.decisions = @ + 1,
                 !.prompts = Append(@, ContinuationPrompt(h.message))]
  ELSE IF branch = "image"
  THEN Deliver(h, ImageResponse(GenerateScreenshotMessage(h.toolResults),
                                h.screenshotData, h.sessionId))
  ELSE IF branch = "followUp"
  THEN [h EXCEPT !.pc = "followUp", !.k = 0, !.followUps = Append(@, h.toolResults)]
  ELSE Deliver(h, TextResponse(ResponseContent(h.toolResults \o h.nextToolResults),
                               h.sessionId))

BatchEnd(h) ==
  IF Pass(h) = 1
  THEN Classified(h, ExecuteToolsBranch(h.message, h.toolResults, h.hasScreenshot,
                                        h.screenshotData))
  ELSE Classified(h, ContinuationBranch(h.message, h.nextToolResults, h.hasScreenshot,
                                        h.screenshotData))

\* ----------------------------------------------------------------- actions
\* A chat_message event arrives (server.ts 56-71).  The handler validates,
\* emits typing_start and enters processMessage, which touches the session,
\* reads the tools and starts the decision call of the model (part_009
\* 383-397); the handler is then suspended on that call.
ChatMessage(m, data) ==
  /\ chat[m].pc \in {"idle", "done"}
  /\ LET sessionId == IF Truthy(data.sessionId) THEN data.sessionId ELSE DefaultSession
     IN IF ~data.present
        THEN /\ chat' = [chat EXCEPT ![m] = ServerCatch(NewHandler)]
             /\ UNCHANGED sessions
        ELSE IF InvalidMessage(data.message)
        THEN /\ chat' = [chat EXCEPT ![m] =
                           [NewHandler EXCEPT !.pc = "done",
                                              !.emitted = <<Emitted("error", Undef)>>]]
             /\ UNCHANGED sessions
        ELSE /\ sessions[sessionId].messageCount < MaxCount
             /\ sessions' = UpdateSessionActivity(sessions, sessionId, clock)
             /\ chat' = [chat EXCEPT ![m] =
                           [NewHandler EXCEPT
                              !.pc = "deciding", !.message = data.message.text,
                              !.sessionId = sessionId,
                              !.emitted = <<Emitted("typing_start", Undef)>>,
                              !.decisions = 1, !.prompts = <<data.message.text>>]]
  /\ UNCHANGED <<mcpClient, clock, mcpVars, llmVars, runVars, hookVars>>

\* llmService.processMessage settles.  First pass: processMessage, lines
\* 393-420; continuation: continueMultiStepWorkflow, lines 537-545 and 601-624.
DecisionReply(m, reply) ==
  /\ chat[m].pc = "deciding"
  /\ LET h == chat[m]
     IN chat' = [chat EXCEPT ![m] =
          IF Pass(h) = 1
          THEN IF ~reply.ok
               THEN Deliver(Raised(h, "decision"), ProcessMessageCatch(h.sessionId))
               ELSE IF reply.requiresTools /\ reply.toolCalls # <<>>
               THEN Iteration([h EXCEPT !.toolCalls = reply.toolCalls], 1)
               ELSE Deliver(h, TextResponse(reply.content, h.sessionId))
          ELSE IF ~reply.ok
               THEN Deliver(Raised(h, "continuation"),
                            ContinuationCatch(h.screenshotData, h.sessionId))
               ELSE IF reply.requiresTools /\ reply.toolCalls # <<>>
               THEN Iteration([h EXCEPT !.nextToolCalls = reply.toolCalls,
                                        !.nextToolResults = <<>>], 1)
               ELSE Deliver(h, TextResponse(<<"Screenshot captured!">> \o reply.content,
                                            h.sessionId))]
  /\ UNCHANGED <<mcpClient, sessions, clock, mcpVars, llmVars, runVars, hookVars>>

\* mcpClient.callTool of the current iteration settles; the loop goes on with
\* the next tool call or the batch ends (lines 429-486 and 549-600).
ToolReturn(m, outcome) ==
  /\ chat[m].pc = "tool"
  /\ LET h == chat[m]
         toolCall == Batch(h)[h.k]
         pushed == IF Pass(h) = 1 THEN Collected(h, toolCall, outcome)
                   ELSE CollectedNext(h, toolCall, outcome)
         logged == [pushed EXCEPT
                      !.log = Append(@, ReturnEvent(Pass(h), h.k, toolCall.name, outcome)),
                      !.raised = IF outcome.thrown THEN Append(@, "tool") ELSE @]
     IN /\ outcome \in ToolOutcomes(mcpClient, toolCall.name)
        /\ chat' = [chat EXCEPT ![m] =
                      IF h.k < Len(Batch(h)) THEN Iteration(logged, h.k + 1)
                      ELSE BatchEnd(logged)]
  /\ UNCHANGED <<mcpClient, sessions, clock, mcpVars, llmVars, runVars, hookVars>>

\* llmService.generateFollowUpResponse settles (lines 486-499); when it
\* throws, the catch of processMessage answers.
FollowUpReply(m, apiOk) ==
  /\ chat[m].pc = "followUp"
  /\ LET h == chat[m]
         followUpResponse == GenerateFollowUpResponse(apiOk)
         after == IF apiOk THEN h ELSE Raised(h, "followUp")
     IN chat' = [chat EXCEPT ![m] =
          IF followUpResponse.ok
          THEN Deliver(after, TextResponse(followUpResponse.content, h.sessionId))
          ELSE Deliver(after, ProcessMessageCatch(h.sessionId))]
  /\ UNCHANGED <<mcpClient, sessions, clock, mcpVars, llmVars, runVars, hookVars>>

\* Date.now() moves on
ClockAdvance ==
  /\ clock < MaxClock
  /\ clock' = clock + 1
  /\ UNCHANGED <<mcpClient, sessions, chat, mcpVars, llmVars, runVars, hookVars>>

AllOutcomes ==
  UNION {ToolOutcomes(c, t) : c \in ClientKinds, t \in CallableTools}

NextChat ==
  \/ \E m \in Msgs, data \in ChatData : ChatMessage(m, data)
  \/ \E m \in Msgs, reply \in DecisionReplies : DecisionReply(m, reply)
  \/ \E m \in Msgs, outcome \in AllOutcomes : ToolReturn(m, outcome)
  \/ \E m \in Msgs, apiOk \in BOOLEAN : FollowUpReply(m, apiOk)
  \/ ClockAdvance

\* ChatService is constructed with one of the two clients (line 376)
InitChat ==
  /\ MCPIdle
  /\ serverTools = HardcodedTools
  /\ mcpClient \in ClientKinds
  /\ ChatIdle
  /\ LLMIdle
  /\ openai = TRUE
  /\ HookMounted

SpecChat == InitChat /\ [][NextChat]_vars

\* ------------------------------------------------------- claims, ChatService
InFlight(m) == chat[m].pc \in {"deciding", "tool", "followUp"}
Done(m) == chat[m].pc = "done"
\* the handler entered processMessage: its chat_message was a valid one
Entered(m) == chat[m].decisions >= 1
Responded(m) == chat[m].response # NoChatResponse

\* the events of one kind a handler emitted
EmittedCount(m, event) ==
  Cardinality({i \in DOMAIN chat[m].emitted : chat[m].emitted[i].event = event})

\* the suspended handler m waits for a call it has made and that has not
\* returned: a model call, or the tool call of its current iteration
Outstanding(m) ==
  LET h == chat[m]
  IN \/ h.pc = "deciding" /\ Len(h.prompts) = h.decisions
     \/ h.pc = "followUp" /\ h.followUps # <<>>
     \/ /\ h.pc = "tool"
        /\ h.k \in DOMAIN Batch(h)
        /\ h.log # <<>>
        /\ h.log[Len(h.log)] = CallEvent(Pass(h), h.k, Batch(h)[h.k].name)

\* what handler m has behind it: model calls made, tool calls started and
\* returned
Progress(m) == chat[m].decisions + Len(chat[m].followUps) + Len(chat[m].log)

\* C11: every message handed to processMessage gets exactly one response
\* object on every path.  While the handler is suspended there is none and no
\* chat_response was emitted, it waits for a call that is outstanding (which
\* settles: the model call by its answer or its last retry, callTool by its
\* response, timer or exit), and each of its steps either ends it or adds to
\* a bounded count of model and tool calls, so it cannot stay without a
\* response.  Once done there is one
\* response, which stays until the next chat_message arrives; processMessage
\* never rejects, and the server emitted exactly one chat_response.
C11_ExactlyOneResponse ==
  /\ [](\A m \in Msgs :
          /\ ~chat[m].rejected
          /\ InFlight(m) =>
               /\ ~Responded(m) /\ EmittedCount(m, "chat_response") = 0
               /\ Outstanding(m)
               /\ Progress(m) <= 3 + 4 * MaxBatch
          /\ (Done(m) /\ Entered(m)) =>
               (Responded(m) /\ EmittedCount(m, "chat_response") = 1))
  /\ [][\A m \in Msgs :
          /\ (Responded(m) /\ chat'[m].response # chat[m].response) =>
               (Done(m) /\ ~Responded(m)')
          /\ (InFlight(m) /\ chat'[m] # chat[m]) =>
               (Done(m)' \/ Progress(m)' > Progress(m))]_vars

\* a message answered by the continuation pass after its second batch
C11_Witness ==
  /\ Done(1)
  /\ chat[1].decisions = 2
  /\ Len(chat[1].nextToolResults) = 2
  /\ chat[1].response.type = "text"
  /\ EmittedCount(1, "chat_response") = 1

\* the tool calls of a pass of handler m, and the results collected in it
BatchOf(m, pass) == IF pass = 1 THEN chat[m].toolCalls ELSE chat[m].nextToolCalls
ResultsOf(m, pass) == IF pass = 1 THEN chat[m].toolResults ELSE chat[m].nextToolResults

\* the positions of the log at which tool call k of a pass returned
Returns(m, pass, k) ==
  {i \in DOMAIN chat[m].log :
     /\ chat[m].log[i].ev = "return"
     /\ chat[m].log[i].pass = pass
     /\ chat[m].log[i].k = k}

\* the Tool Result an outcome of callTool is collected as
ResultFor(pass, name, outcome) ==
  IF outcome.thrown THEN FailedResult(outcome.error, name)
  ELSE IF pass = 1 THEN outcome.result
  ELSE [outcome.result EXCEPT !.toolName = name]

\* C12: within a batch the tool calls are sent in the order the model listed
\* them and one at a time: a call is sent only when no other is outstanding,
\* call k+1 directly after call k returned, every return answers the call
\* sent just before it, and the i-th collected Tool Result is the one of the
\* i-th call.
C12_BatchInOrder ==
  \A m \in Msgs :
    LET log == chat[m].log
    IN /\ \A i \in DOMAIN log :
            /\ log[i].k \in DOMAIN BatchOf(m, log[i].pass)
            /\ log[i].name = BatchOf(m, log[i].pass)[log[i].k].name
            /\ log[i].ev = "call" =>
                 /\ i > 1 => log[i - 1].ev = "return"
                 /\ IF log[i].k = 1 THEN i > 1 => log[i - 1].pass < log[i].pass
                    ELSE /\ log[i - 1].pass = log[i].pass
                         /\ log[i - 1].k = log[i].k - 1
            /\ log[i].ev = "return" =>
                 /\ i > 1
                 /\ log[i - 1] = CallEvent(log[i].pass, log[i].k, log[i].name)
       /\ \A pass \in 1..2 :
            /\ Len(ResultsOf(m, pass)) =
                 Cardinality({k \in DOMAIN BatchOf(m, pass) : Returns(m, pass, k) # {}})
            /\ \A k \in DOMAIN ResultsOf(m, pass) :
                 \E i \in Returns(m, pass, k) :
                   ResultsOf(m, pass)[k] = ResultFor(pass, log[i].name, log[i].outcome)

\* a batch of a click and a screenshot, finished: the click failed, the
\* screenshot gave an image
C12_Witness ==
  /\ chat[1].toolCalls = <<ToolCall(ClickTool), ToolCall(ScreenTool)>>
  /\ Len(chat[1].toolResults) = 2
  /\ ~chat[1].toolResults[1].success
  /\ chat[1].toolResults[2].imageData = "image data"
  /\ Len(chat[1].log) = 4

\* the batch of a pass of handler m has ended
BatchEnded(m, pass) ==
  IF pass = 1
  THEN chat[m].toolCalls # <<>>
         /\ (chat[m].pc \in {"followUp", "done"} \/ chat[m].decisions >= 2)
  ELSE chat[m].nextToolCalls # <<>> /\ chat[m].pc = "done"

\* C13: a failing tool call never aborts its batch: when a batch of n tool
\* calls has ended, all n were attempted and exactly n Tool Results were
\* collected; a call that returned success = false has that result at its
\* position, and a call that threw has there a Tool Result with
\* success = false, the message of the error and the name of the tool.
C13_FailureDoesNotAbortBatch ==
  \A m \in Msgs, pass \in 1..2 :
    BatchEnded(m, pass) =>
      /\ Len(ResultsOf(m, pass)) = Len(BatchOf(m, pass))
      /\ \A k \in DOMAIN BatchOf(m, pass) :
           /\ Cardinality(Returns(m, pass, k)) = 1
           /\ \A i \in Returns(m, pass, k) :
                LET outcome == chat[m].log[i].outcome
                    result == ResultsOf(m, pass)[k]
                IN /\ outcome.thrown =>
                        result = [success |-> FALSE, content |-> Undef,
                                  imageData |-> Undef, error |-> outcome.error,
                                  toolName |-> BatchOf(m, pass)[k].name]
                   /\ (~outcome.thrown /\ ~outcome.result.success) =>
                        (~result.success /\ result.error = outcome.result.error)

\* a batch of two calls that ended: the first call threw, the second returned
\* a failure
C13_Witness ==
  /\ BatchEnded(1, 1)
  /\ Len(chat[1].toolCalls) = 2
  /\ chat[1].log[2].outcome.thrown
  /\ chat[1].toolResults[1].error = ErrNotConnected
  /\ ~chat[1].log[4].outcome.thrown
  /\ ~chat[1].toolResults[2].success

\* the continuation prompt of handler m was sent to the model
Continued(m) == Len(chat[m].prompts) >= 2

\* the first batch was one call of the screenshot tool, and it succeeded
LoneScreenshotSucceeded(m) ==
  /\ Len(chat[m].toolResults) = 1
  /\ chat[m].toolCalls[1].name = ScreenTool
  /\ chat[m].toolResults[1].success

\* C14, as stated: once the first batch has ended, the continuation pass was
\* started if and only if the message holds a multi-step indicator, exactly
\* one tool was executed, it was the screenshot tool and it succeeded.
C14_ContinuationIffLoneScreenshot ==
  \A m \in Msgs :
    /\ BatchEnded(m, 1) =>
         (Continued(m) <=>
            (IsMultiStepRequest(chat[m].message) /\ LoneScreenshotSucceeded(m)))
    /\ ~BatchEnded(m, 1) => ~Continued(m)

\* C14, amended: ... it was the screenshot tool and it succeeded with image
\* data; in every other case no continuation prompt is sent.
C14_ContinuationIffLoneScreenshotImage ==
  \A m \in Msgs :
    /\ BatchEnded(m, 1) =>
         (Continued(m) <=>
            /\ IsMultiStepRequest(chat[m].message)
            /\ LoneScreenshotSucceeded(m)
            /\ Truthy(chat[m].toolResults[1].imageData))
    /\ ~BatchEnded(m, 1) => ~Continued(m)
    /\ Len(chat[m].prompts) <= 2

\* the continuation prompt was just sent after a lone screenshot with image
C14_Witness ==
  /\ chat[1].pc = "deciding"
  /\ Continued(1)
  /\ chat[1].message = <<"T", "h", "e", "n">>
  /\ chat[1].toolCalls = <<ToolCall(ScreenTool)>>
  /\ chat[1].screenshotData = "image data"

\* the batches handler m has started
BatchesStarted(m) ==
  Cardinality({i \in DOMAIN chat[m].log :
                 chat[m].log[i].ev = "call" /\ chat[m].log[i].k = 1})

\* C15: one inbound message causes at most two decision calls of the model
\* and at most two tool batches, and when the continuation batch has ended the
\* handler is done, whatever that batch was.
C15_ContinuationAtMostOnce ==
  \A m \in Msgs :
    /\ chat[m].decisions <= 2
    /\ Len(chat[m].prompts) = chat[m].decisions
    /\ BatchesStarted(m) <= 2
    /\ \A i \in DOMAIN chat[m].log : chat[m].log[i].pass \in 1..2
    /\ (chat[m].nextToolCalls # <<>> /\ chat[m].pc # "tool") => Done(m)

\* the continuation batch was a single screenshot that succeeded with image
\* data, and the handler is done after two decision calls
C15_Witness ==
  /\ Done(1)
  /\ chat[1].decisions = 2
  /\ chat[1].nextToolCalls = <<ToolCall(ScreenTool)>>
  /\ Len(chat[1].nextToolResults) = 1
  /\ chat[1].nextToolResults[1].success
  /\ chat[1].nextToolResults[1].imageData = "image data"

\* the calls of the first batch of handler m that were a screenshot which
\* succeeded with image data
Screenshots(m) ==
  {k \in DOMAIN chat[m].toolResults :
     /\ chat[m].toolCalls[k].name = ScreenTool
     /\ chat[m].toolResults[k].success
     /\ Truthy(chat[m].toolResults[k].imageData)}

\* C16: for a message without multi-step indicator whose batch holds a
\* screenshot that succeeded with image data, the response has type image and
\* carries the image data of a screenshot of the batch, and the model was
\* called once: no follow-up call and no second decision call.
C16_ScreenshotAnsweredDirectly ==
  \A m \in Msgs :
    (BatchEnded(m, 1) /\ ~IsMultiStepRequest(chat[m].message) /\ Screenshots(m) # {}) =>
      /\ Done(m)
      /\ chat[m].response.type = "image"
      /\ \E k \in Screenshots(m) :
           chat[m].response.imageData = chat[m].toolResults[k].imageData
      /\ chat[m].decisions = 1
      /\ chat[m].followUps = <<>>

\* "tap" answered with the image of a batch whose click failed and whose
\* screenshot succeeded
C16_Witness ==
  /\ Done(1)
  /\ chat[1].message = <<"t", "a", "p">>
  /\ chat[1].toolCalls = <<ToolCall(ClickTool), ToolCall(ScreenTool)>>
  /\ ~chat[1].toolResults[1].success
  /\ Screenshots(1) = {2}
  /\ chat[1].response.type = "image"

\* C17: whenever the continuation is not started and a screenshot of the
\* batch succeeded with image data, the response is image-typed and carries
\* that image data, for every message text and every batch size; the
\* follow-up text path is taken only when no screenshot with image data
\* succeeded.
C17_ImageWheneverScreenshot ==
  \A m \in Msgs :
    (BatchEnded(m, 1) /\ ~Continued(m)) =>
      /\ Screenshots(m) # {} =>
           /\ Done(m)
           /\ chat[m].response.type = "image"
           /\ \E k \in Screenshots(m) :
                chat[m].response.imageData = chat[m].toolResults[k].imageData
      /\ chat[m].followUps # <<>> => Screenshots(m) = {}

\* the lines of the summary of handler m that report an action: its content
\* without the heading and the closing line
ReportedActions(m) ==
  SubSeq(chat[m].response.content, 2, Len(chat[m].response.content) - 1)

\* one line per tool call of both batches, the first batch first
ActionsOfBothBatches(m) ==
  LET allCalls == chat[m].toolCalls \o chat[m].nextToolCalls
  IN [i \in DOMAIN allCalls |-> ActionLabel(allCalls[i].name)]

\* C18: when the continuation ran a second batch, the final response has type
\* text and reports every action of both batches in order: the actions of the
\* first batch, then those of the continuation.
C18_SummaryOfBothBatches ==
  \A m \in Msgs :
    BatchEnded(m, 2) =>
      /\ chat[m].response.type = "text"
      /\ ReportedActions(m) = ActionsOfBothBatches(m)

\* no screenshot call of the first batch succeeded, and a call of it failed
FailedWithoutScreenshot(m) ==
  /\ \A k \in DOMAIN chat[m].toolResults :
       chat[m].toolCalls[k].name = ScreenTool => ~chat[m].toolResults[k].success
  /\ \E k \in DOMAIN chat[m].toolResults : ~chat[m].toolResults[k].success

RaisedIn(m, step) == \E i \in DOMAIN chat[m].raised : chat[m].raised[i] = step

IsApology(response) == response.type = "error" /\ response.content = <<Apology>>

ApiReplies == {LLMPlain} \cup {LLMTools(l) : l \in ToolCallLists}
ApiFailures == {"No response from LLM", "rejected"}
ApiOutcomes ==
  {[ok |-> TRUE, reply |-> r, error |-> "none"] : r \in ApiReplies}
  \cup {[ok |-> FALSE, reply |-> NoLLMResponse, error |-> e] : e \in ApiFailures}

\* a delay that does not grow with the attempt
RetryDelayFlat(attempt) == RETRY_DELAY_MS

\* line 173: this.RETRY_DELAY_MS * attempt
RetryDelay(attempt) == RETRY_DELAY_MS * attempt

\* one attempt more than the loop makes
MayRetryOnceMore(attempt) == attempt <= MAX_RETRIES

\* line 172: attempt < this.MAX_RETRIES
MayRetry(attempt) == attempt < MAX_RETRIES

\* lines 120-142: the loop is entered and the API is invoked for attempt 1
CallLLMWithRetry(c) ==
  /\ llm[c].pc = "idle"
  /\ llm' = [llm EXCEPT ![c] =
               [NewLLMCall EXCEPT !.pc = "calling", !.attempt = 1, !.invoked = 1]]
  /\ UNCHANGED <<conversations, appended, followUp, openai, mcpVars, chatVars, runVars, hookVars>>

\* The API invocation of the current attempt settles.  A reply is returned at
\* once (lines 143-166); a failure is caught (168-175): it becomes lastError,
\* and the loop waits before the next attempt, or ends and line 178 throws.
ApiSettles(c, outcome) ==
  /\ llm[c].pc = "calling"
  /\ LET l == llm[c]
         failed == [l EXCEPT !.lastError = [attempt |-> l.attempt, kind |-> outcome.error]]
     IN llm' = [llm EXCEPT ![c] =
          IF outcome.ok
          THEN [l EXCEPT !.pc = "returned", !.response = outcome.reply]
          ELSE IF MayRetry(l.attempt)
          THEN [failed EXCEPT !.pc = "waiting", !.left = RetryDelay(l.attempt),
                              !.slept = 0,
                              !.delays = Append(@, RetryDelay(l.attempt))]
          ELSE [failed EXCEPT !.pc = "threw", !.thrown = failed.lastError]]
  /\ UNCHANGED <<conversations, appended, followUp, openai, mcpVars, chatVars, runVars, hookVars>>

\* the timer of line 173 fires: attempt++ and the API is invoked again
RetryDelayElapsed(c) ==
  /\ llm[c].pc = "waiting"
  /\ llm[c].left = 0
  /\ llm' = [llm EXCEPT ![c] =
               [llm[c] EXCEPT !.pc = "calling", !.attempt = @ + 1, !.invoked = @ + 1]]
  /\ UNCHANGED <<conversations, appended, followUp, openai, mcpVars, chatVars, runVars, hookVars>>

\* the delays still running
RetryLefts == {llm[c].left : c \in {x \in LLMCalls : llm[x].pc = "waiting"}}

\* Time passes up to the next timer that is due, in steps of RetryTickMs at
\* most; a timer that is due fires before the clock moves on.
RetryTick ==
  /\ RetryLefts # {}
  /\ 0 \notin RetryLefts
  /\ LET d == Min(RetryTickMs, SetMin(RetryLefts))
     IN llm' = [c \in LLMCalls |->
                  IF llm[c].pc = "waiting"
                  THEN [llm[c] EXCEPT !.left = @ - d, !.slept = @ + d]
                  ELSE llm[c]]
  /\ UNCHANGED <<conversations, appended, followUp, openai, mcpVars, chatVars, runVars, hookVars>>

NextRetry ==
  \/ \E c \in LLMCalls : CallLLMWithRetry(c)
  \/ \E c \in LLMCalls, outcome \in ApiOutcomes : ApiSettles(c, outcome)
  \/ \E c \in LLMCalls : RetryDelayElapsed(c)
  \/ RetryTick

\* the services as server.ts constructs them, idle
ServicesIdle ==
  /\ MCPIdle
  /\ serverTools = HardcodedTools
  /\ mcpClient = "MCPClient"
  /\ ChatIdle
  /\ LLMIdle
  /\ HookMounted

\* an LLMService whose constructor found an API key, lines 32-46
InitLLM ==
  /\ ServicesIdle
  /\ openai = TRUE

\* an LLMService constructed with or without an API key
InitLLMAny ==
  /\ ServicesIdle
  /\ openai \in BOOLEAN

SpecRetry == InitLLM /\ [][NextRetry]_vars

\* The API client settles every request and every timer fires.
FairSpecRetry ==
  /\ SpecRetry
  /\ \A c \in LLMCalls :
       /\ WF_vars(\E outcome \in ApiOutcomes : ApiSettles(c, outcome))
       /\ WF_vars(RetryDelayElapsed(c))
  /\ WF_vars(RetryTick)

\* --------------------------------------------------------- claims, LLMService
LLMSettled(c) == llm[c].pc \in {"returned", "threw"}

\* the delays a call waited before its current attempt: 1000 ms, then 2000 ms
DelaysBefore(attempt) == [i \in 1..(attempt - 1) |-> i * 1000]

\* what holds of a call of callLLMWithRetry in every state
RetryInvariant(c) ==
  LET l == llm[c]
  IN /\ l.invoked <= 3
     /\ l.invoked = l.attempt
     /\ l.pc = "returned" => /\ l.response \in ApiReplies
                             /\ l.delays = DelaysBefore(l.attempt)
     /\ l.pc = "calling" => l.delays = DelaysBefore(l.attempt)
     /\ l.pc = "waiting" => /\ l.attempt < 3
                            /\ l.delays = DelaysBefore(l.attempt + 1)
                            /\ l.left + l.slept = l.attempt * 1000
                            /\ l.left >= 0
     /\ l.pc = "threw" => /\ l.attempt = 3
                          /\ l.delays = <<1000, 2000>>
                          /\ l.thrown = l.lastError
                          /\ l.thrown.attempt = 3
                          /\ l.thrown.kind \in ApiFailures

\* what holds of every step of a call of callLLMWithRetry
RetryStep(c) ==
  LET l == llm[c]
  IN /\ LLMSettled(c) => llm'[c] = l
     /\ llm'[c].invoked > l.invoked =>
          \/ l.pc = "idle"
          \/ l.pc = "waiting" /\ l.slept = l.attempt * 1000
     /\ (l.pc = "calling" /\ llm'[c].pc = "threw") =>
          llm'[c].delays = l.delays

\* C21: one call of callLLMWithRetry invokes the model API at most 3 times; it
\* returns at the first attempt that succeeds and invokes nothing after it; a
\* failed attempt is followed by the next one only after attempt x 1000 ms
\* (1000 ms, then 2000 ms); the third failure throws the last error with no
\* further delay; and every call made settles.
C21_RetryAtMostThreeWithBackoff ==
  /\ [](\A c \in LLMCalls : RetryInvariant(c))
  /\ [][\A c \in LLMCalls : RetryStep(c)]_vars
  /\ \A c \in LLMCalls : (llm[c].pc # "idle") ~> LLMSettled(c)

\* a call failed twice, waited 1000 ms and 2000 ms, and returned the reply of
\* its third attempt, while another call threw after three failures
C21_Witness ==
  /\ llm[1].pc = "returned"
  /\ llm[1].attempt = 3
  /\ llm[1].delays = <<1000, 2000>>
  /\ llm[2].pc = "threw"
  /\ llm[2].invoked = 3

\* ------------------------------- LLMService.addToConversationContext, 268-278
\* an append that truncates at the newest end
AddTruncatingNewest(context, message) ==
  LET pushed == Append(context, message)
  IN IF Len(pushed) > MAX_CONTEXT_MESSAGES
     THEN SubSeq(pushed, 1, MAX_CONTEXT_MESSAGES)
     ELSE pushed

\* context.push(message); context.splice(0, context.length - MAX) when the
\* length exceeds MAX, lines 270-275
AddToConversationContext(context, message) ==
  LET pushed == Append(context, message)
  IN IF Len(pushed) > MAX_CONTEXT_MESSAGES
     THEN SubSeq(pushed, Len(pushed) - MAX_CONTEXT_MESSAGES + 1, Len(pushed))
     ELSE pushed

\* a set that stores the context under every session id
SetContextOfAll(convs, sessionId, context) == [s \in SessionIds |-> context]

\* this.conversations.set(sessionId, context), line 277
SetContext(convs, sessionId, context) == [convs EXCEPT ![sessionId] = context]

\* this.conversations.get(sessionId) || [], line 265
GetConversationContext(sessionId) == conversations[sessionId]

\* The n-th message appended to a history since it was cleared.  In a session
\* whose calls succeed the user's message (line 90) and the assistant's (line
\* 99) alternate.
HistoryMessage(n) ==
  [role |-> IF n % 2 = 1 THEN "user" ELSE "assistant", content |-> n]

\* one call of addToConversationContext(sessionId, message)
AddMessage(sessionId) ==
  /\ Len(appended[sessionId]) < MaxAppends
  /\ LET message == HistoryMessage(Len(appended[sessionId]) + 1)
     IN /\ conversations' =
             SetContext(conversations, sessionId,
                AddToConversationContext(GetConversationContext(sessionId), message))
        /\ appended' = [appended EXCEPT ![sessionId] = Append(@, message)]
  /\ UNCHANGED <<llm, followUp, openai, mcpVars, chatVars, runVars, hookVars>>

\* clearConversationContext(sessionId), lines 280-282
ClearConversationContext(sessionId) ==
  /\ appended[sessionId] # <<>>
  /\ conversations' = [conversations EXCEPT ![sessionId] = <<>>]
  /\ appended' = [appended EXCEPT ![sessionId] = <<>>]
  /\ UNCHANGED <<llm, followUp, openai, mcpVars, chatVars, runVars, hookVars>>

NextHistory ==
  \/ \E sessionId \in SessionIds : AddMessage(sessionId)
  \/ \E sessionId \in SessionIds : ClearConversationContext(sessionId)

SpecHistory == InitLLM /\ [][NextHistory]_vars

\* the last n elements of a sequence, all of it when it is shorter
LastOf(seq, n) ==
  IF Len(seq) <= n THEN seq ELSE SubSeq(seq, Len(seq) - n + 1, Len(seq))

\* C22: the history of a session never holds more than 20 messages, and it is
\* exactly the most recent 20 (all, when fewer were appended) of the messages
\* appended to it, in the order they were appended.
C22_HistoryIsMostRecent ==
  \A s \in SessionIds :
    /\ Len(conversations[s]) <= 20
    /\ conversations[s] = LastOf(appended[s], 20)

\* 22 messages were appended to the history of a session: it holds the 3rd to
\* the 22nd
C22_Witness ==
  /\ Len(appended["s1"]) = 22
  /\ Len(conversations["s1"]) = 20
  /\ conversations["s1"][1].content = 3
  /\ conversations["s1"][20].content = 22

\* ------------------------ LLMService.generateFollowUpResponse, lines 284-354
\* What the API invocation of line 325 ends with: a choice with text, a choice
\* without text (line 333 supplies a default), no choice at all (line 333
\* throws) or a rejected request.
FollowUpApiOutcomes == {"content", "no content", "no choice", "rejected"}

\* the try block reaches its return, lines 291-345
FollowUpApiOk(configured, outcome) ==
  configured /\ outcome \in {"content", "no content"}

\* One call of generateFollowUpResponse settles.  The answer of the model is
\* appended to the history (lines 336-340); any failure, 'No LLM provider
\* configured' included, is caught (347-353).
GenerateFollowUp(sessionId, configured, outcome) ==
  LET apiOk == FollowUpApiOk(configured, outcome)
      n == Len(appended[sessionId]) + 1
      message == [role |-> "assistant", content |-> n]
  IN /\ apiOk => n <= MaxAppends
     /\ followUp' = [followUp EXCEPT ![sessionId] =
                       [called |-> TRUE, response |-> GenerateFollowUpResponse(apiOk)]]
     /\ IF apiOk
        THEN /\ conversations' =
                  SetContext(conversations, sessionId,
                     AddToConversationContext(GetConversationContext(sessionId), message))
             /\ appended' = [appended EXCEPT ![sessionId] = Append(@, message)]
        ELSE UNCHANGED <<conversations, appended>>
     /\ UNCHANGED <<llm, openai, mcpVars, chatVars, runVars, hookVars>>

NextFollowUp ==
  \/ \E sessionId \in SessionIds, outcome \in FollowUpApiOutcomes :
       GenerateFollowUp(sessionId, openai, outcome)
  \/ \E sessionId \in SessionIds : ClearConversationContext(sessionId)

SpecFollowUp == InitLLMAny /\ [][NextFollowUp]_vars

\* C23: whatever generateFollowUpResponse is called with, and also when the
\* API call fails or no provider is configured, it returns (it does not
\* throw) a result with text, requiresTools = false and no tool calls.
C23_FollowUpIsPlainText ==
  \A s \in SessionIds :
    followUp[s].called =>
      /\ followUp[s].response.ok
      /\ followUp[s].response.content # <<>>
      /\ ~followUp[s].response.requiresTools
      /\ followUp[s].response.toolCalls = <<>>

\* a follow-up of one session returned the text of the model, and one of
\* another session, whose API call failed, the fallback text
C23_Witness ==
  /\ followUp["s1"].called
  /\ followUp["s1"].response = FollowUpCaught
  /\ followUp[DefaultSession].called
  /\ followUp[DefaultSession].response # FollowUpCaught
  /\ conversations["s1"] = <<>>
  /\ conversations[DefaultSession] # <<>>

\* --------------------------- the session registry and the histories together
\* ChatService.processMessage seen from the session registry and from
\* LLMService: which session it touches, which messages it appends to the
\* history and which context each model call is sent with.  What the tool
\* batches do in between is in SpecChat; here a batch only ends, in one of
\* the ways executeTools and continueMultiStepWorkflow can end.
Present(s) == sessions[s].messageCount > 0

\* the message a call of addToConversationContext appends
Said(sessionId, role) ==
  [role |-> role, content |-> Len(appended[sessionId]) + 1]

\* addToConversationContext(sessionId, {role, ...})
Appending(sessionId, role) ==
  /\ conversations' =
       SetContext(conversations, sessionId,
                  AddToConversationContext(GetConversationContext(sessionId),
                                           Said(sessionId, role)))
  /\ appended' = [appended EXCEPT ![sessionId] = Append(@, Said(sessionId, role))]

\* processMessage is entered (part_009 383-397): the session is touched, and
\* LLMService.processMessage reads the context, appends the user's message and
\* invokes the model (llmService.ts 60-96).  Without a provider it throws
\* before it reads the context (55-57), and the catch of
\* ChatService.processMessage answers.
ProcessMessage(r, sessionId) ==
  /\ runs[r].pc = "idle"
  /\ \A q \in Runs : q < r => runs[q].pc # "idle"
  /\ sessions' = UpdateSessionActivity(sessions, sessionId, clock)
  /\ IF openai
     THEN /\ Appending(sessionId, "user")
          /\ runs' = [runs EXCEPT ![r] =
                        [pc |-> "deciding", sessionId |-> sessionId, pass |-> 1,
                         context |-> GetConversationContext(sessionId)]]
     ELSE /\ runs' = [runs EXCEPT ![r] =
                        [pc |-> "done", sessionId |-> sessionId, pass |-> 1,
                         context |-> <<>>]]
          /\ UNCHANGED <<conversations, appended>>
  /\ swept' = swept \ {sessionId}
  /\ inbound' = [inbound EXCEPT ![sessionId] = @ + 1]
  /\ UNCHANGED <<clock, mcpClient, chat, llm, followUp, openai, mcpVars, hookVars>>

\* callLLMWithRetry settles (llmService.ts 96-110): a reply is appended as the
\* assistant's message, an error is thrown on and answered by the catch of
\* processMessage or of continueMultiStepWorkflow.
DecisionSettles(r, reply) ==
  /\ runs[r].pc = "deciding"
  /\ IF reply = "thrown"
     THEN /\ runs' = [runs EXCEPT ![r].pc = "done"]
          /\ UNCHANGED <<conversations, appended>>
     ELSE /\ Appending(runs[r].sessionId, "assistant")
          /\ runs' = [runs EXCEPT ![r].pc = IF reply = "tools" THEN "tools" ELSE "done"]
  /\ UNCHANGED <<sessions, clock, swept, inbound, mcpClient, chat, llm, followUp, openai, mcpVars, hookVars>>

\* the ways a tool batch ends: executeTools (part_009 463-499) and
\* continueMultiStepWorkflow (574-600)
BatchEnds(pass) == IF pass = 1 THEN {"image", "followUp", "continue"} ELSE {"summary"}

\* A tool batch has ended.  The continuation sends its prompt through
\* LLMService.processMessage (part_009 537-541), which appends it as a user
\* message; it does not touch the session.
ToolsEnd(r, branch) ==
  /\ runs[r].pc = "tools"
  /\ branch \in BatchEnds(runs[r].pass)
  /\ IF branch = "continue"
     THEN /\ Appending(runs[r].sessionId, "user")
          /\ runs' = [runs EXCEPT ![r].pc = "deciding", ![r].pass = 2,
                                  ![r].context = GetConversationContext(runs[r].sessionId)]
     ELSE /\ runs' = [runs EXCEPT ![r].pc = IF branch = "followUp" THEN "followUp"
                                                                  ELSE "done"]
          /\ UNCHANGED <<conversations, appended>>
  /\ UNCHANGED <<sessions, clock, swept, inbound, mcpClient, chat, llm, followUp, openai, mcpVars, hookVars>>

\* generateFollowUpResponse settles (llmService.ts 325-353)
FollowUpSettles(r, apiOk) ==
  /\ runs[r].pc = "followUp"
  /\ IF apiOk
     THEN Appending(runs[r].sessionId, "assistant")
     ELSE UNCHANGED <<conversations, appended>>
  /\ runs' = [runs EXCEPT ![r].pc = "done"]
  /\ UNCHANGED <<sessions, clock, swept, inbound, mcpClient, chat, llm, followUp, openai, mcpVars, hookVars>>

\* now - session.lastActivity > this.SESSION_TIMEOUT_MS, line 660
Expired(session, now) == now - session.lastActivity > SESSION_TIMEOUT_MS

\* the sessions a sweep at time now evicts, lines 659-663
ExpiredSessions(now) == {s \in SessionIds : Present(s) /\ Expired(sessions[s], now)}

\* sessions.delete(id) and clearConversationContext(id) for each id of a set,
\* lines 665-668 and 677-678
Evict(ids) ==
  /\ sessions' = [s \in SessionIds |-> IF s \in ids THEN NoSession ELSE sessions[s]]
  /\ conversations' = [s \in SessionIds |-> IF s \in ids THEN <<>> ELSE conversations[s]]
  /\ appended' = [s \in SessionIds |-> IF s \in ids THEN <<>> ELSE appended[s]]
  /\ inbound' = [s \in SessionIds |-> IF s \in ids THEN 0 ELSE inbound[s]]

\* the interval timer of the constructor fires: cleanupExpiredSessions,
\* part_009 655-674
CleanupExpiredSessions ==
  /\ ExpiredSessions(clock) # {}
  /\ Evict(ExpiredSessions(clock))
  /\ swept' = swept \cup ExpiredSessions(clock)
  /\ UNCHANGED <<runs, clock, mcpClient, chat, llm, followUp, openai, mcpVars, hookVars>>

\* the registry and the histories as one value
Stores(ss, convs) == [sessions |-> ss, conversations |-> convs]

\* a clearSession that leaves the history in place
ClearSessionRecordOnly(st, sessionId) ==
  Stores([st.sessions EXCEPT ![sessionId] = NoSession], st.conversations)

\* sessions.delete(sessionId) and conversations.delete(sessionId), part_009
\* 677-678 and llmService.ts 280-282
ClearSessionEffect(st, sessionId) ==
  Stores([st.sessions EXCEPT ![sessionId] = NoSession],
         [st.conversations EXCEPT ![sessionId] = <<>>])

\* clearSession(sessionId), part_009 676-680; it does not look whether the id
\* is known
ClearSession(sessionId) ==
  LET st == ClearSessionEffect(Stores(sessions, conversations), sessionId)
  IN /\ sessions' = st.sessions
     /\ conversations' = st.conversations
     /\ appended' = [appended EXCEPT ![sessionId] = <<>>]
     /\ inbound' = [inbound EXCEPT ![sessionId] = 0]
     /\ UNCHANGED <<runs, swept, clock, mcpClient, chat, llm, followUp, openai, mcpVars, hookVars>>

\* Date.now() moves on
SessionTick ==
  /\ clock < MaxSessionTicks * SessionTickMs
  /\ clock' = clock + SessionTickMs
  /\ UNCHANGED <<sessions, runs, swept, inbound, mcpClient, chat, llmVars, mcpVars, hookVars>>

NextSession ==
  \/ \E r \in Runs, sessionId \in SessionIds : ProcessMessage(r, sessionId)
  \/ \E r \in Runs, reply \in {"thrown", "plain", "tools"} : DecisionSettles(r, reply)
  \/ \E r \in Runs, branch \in {"image", "followUp", "continue", "summary"} :
       ToolsEnd(r, branch)
  \/ \E r \in Runs, apiOk \in BOOLEAN : FollowUpSettles(r, apiOk)
  \/ CleanupExpiredSessions
  \/ \E sessionId \in SessionIds : ClearSession(sessionId)
  \/ SessionTick

SpecSession == InitLLMAny /\ [][NextSession]_vars

\* -------------------------------------------------- claims, session registry
\* a step of cleanupExpiredSessions that evicts at least one session
SweepStep == swept # swept' /\ swept \subseteq swept'

\* run r enters processMessage for session s in this step
Enters(r, s) ==
  runs[r].pc = "idle" /\ runs'[r].pc # "idle" /\ runs'[r].sessionId = s

\* C24: after a sweep no Session Record is left whose lastActivity is more
\* than 30 minutes old; every session the sweep evicts has its history
\* cleared; and the next message for an evicted session is sent to the model
\* with an empty context, also when a message of that session was being
\* processed at the time of the sweep.
C24_EvictedSessionStartsEmpty ==
  [][/\ SweepStep =>
          /\ \A s \in SessionIds : Present(s)' => ~Expired(sessions'[s], clock')
          /\ \A s \in swept' \ swept : ~Present(s)' /\ conversations'[s] = <<>>
     /\ \A r \in Runs, s \in swept :
          Enters(r, s) => runs'[r].context = <<>>]_vars

\* C25: the clock never runs backwards, and then the lastActivity of a Session
\* Record never decreases: while the record stays in the registry it only
\* grows, a record made anew starts at the current time, which no earlier
\* lastActivity exceeds, and createdAt <= lastActivity in every record.
C25_LastActivityNeverDecreases ==
  /\ [](\A s \in SessionIds :
          Present(s) => /\ sessions[s].createdAt <= sessions[s].lastActivity
                        /\ sessions[s].lastActivity <= clock)
  /\ [][/\ clock' >= clock
        /\ \A s \in SessionIds :
             /\ (Present(s) /\ Present(s)') =>
                  sessions'[s].lastActivity >= sessions[s].lastActivity
             /\ (~Present(s) /\ Present(s)') =>
                  sessions'[s].lastActivity = clock']_vars

\* the record of a session was removed after its first message and made anew
\* by its second, more than 30 minutes later
C25_Witness ==
  /\ Present(DefaultSession)
  /\ sessions[DefaultSession].messageCount = 1
  /\ sessions[DefaultSession].createdAt > SESSION_TIMEOUT_MS
  /\ sessions[DefaultSession].lastActivity = clock
  /\ \A r \in Runs : runs[r].sessionId = DefaultSession

\* ------------------------------------------------------ claims, Tool Results
\* a Tool Result with exactly one payload
OnePayload(result) ==
  IF result.success
  THEN /\ (result.content # Undef) # (result.imageData # Undef)
       /\ result.error = Undef
  ELSE /\ result.error # Undef
       /\ result.content = Undef
       /\ result.imageData = Undef

\* C26: every Tool Result that callTool of the client in use returns carries
\* exactly one payload: content or imageData, not both, and no error when
\* success is true; an error and neither content nor imageData when it is
\* false.
C26_ExactlyOnePayload ==
  \A m \in Msgs :
    \A i \in DOMAIN chat[m].log :
      (chat[m].log[i].ev = "return" /\ ~chat[m].log[i].outcome.thrown) =>
        OnePayload(chat[m].log[i].outcome.result)

\* ------------------------------------------------ claims, inbound validation
\* the chat_message handler of slot m ran from its start to its end in this
\* step: it never entered processMessage
RejectedAtOnce(m) ==
  /\ chat[m].pc \in {"idle", "done"}
  /\ chat'[m] # chat[m]
  /\ chat'[m].pc = "done"

\* C27: a chat request whose message is absent or not a string is rejected
\* before processMessage is entered: no Session Record is created or changed,
\* no model call and no tool call is made, no history changes, and the client
\* is sent exactly one error event, no typing_start and no chat_response.
C27_InvalidRequestRejected ==
  [][\A m \in Msgs :
       RejectedAtOnce(m) =>
         /\ sessions' = sessions
         /\ conversations' = conversations
         /\ chat'[m].decisions = 0
         /\ chat'[m].prompts = <<>>
         /\ chat'[m].log = <<>>
         /\ chat'[m].emitted = <<Emitted("error", Undef)>>]_vars

\* run r, working for session a, took a step
StepOf(r, a) == runs'[r] # runs[r] /\ runs'[r].sessionId = a

\* C28: whatever the interleaving of the runs, a step of a run for session a
\* leaves the history and the Session Record of every other session b as they
\* were, so b's history holds just the messages of b's own runs.
C28_SessionsDoNotInterfere ==
  [][\A r \in Runs, a \in SessionIds, b \in SessionIds :
       (StepOf(r, a) /\ b # a) =>
         /\ conversations'[b] = conversations[b]
         /\ appended'[b] = appended[b]
         /\ sessions'[b] = sessions[b]]_vars

\* two runs for different sessions are in flight at once, one in its
\* continuation pass and one waiting for its follow-up, and each session has
\* its own history
C28_Witness ==
  /\ runs[1].pc = "deciding" /\ runs[1].pass = 2
  /\ runs[2].pc = "followUp"
  /\ runs[1].sessionId # runs[2].sessionId
  /\ Len(conversations[runs[1].sessionId]) = 3
  /\ Len(conversations[runs[2].sessionId]) = 2

\* ------------------------------------------------------- claims, request ids
\* C29: no two requests that are in flight at the same time have the same id,
\* and every request in flight has its own entry in the Pending Request map:
\* registering a request never overwrites the entry of another one, and no
\* timer removes the entry of another request.
C29_IdsCollisionFree ==
  /\ \A c, d \in CallIds :
       (c # d /\ Awaiting(c) /\ Awaiting(d)) => calls[c].id # calls[d].id
  /\ \A c \in CallIds :
       Awaiting(c) => pendingRequests[calls[c].id] = c

\* ------------------------------------------------- claims, malformed output
\* the ids of a sequence of responses, in order
IdsOf(responses) == [i \in 1..Len(responses) |-> responses[i].id]

\* the complete lines received so far, trimmed
ReceivedLines ==
  LET lines == CompleteLines(SplitNL(BufferToString(received)))
  IN [i \in 1..Len(lines) |-> Trim(lines[i])]

\* a line that is not blank and that JSON.parse throws on
Malformed(line) == line # <<>> /\ ~JsonParse(line).ok

\* C30: a malformed output line has no effect.  The responses dispatched are
\* those of the well-formed lines received, in their order, whatever
\* malformed lines stand before, between or after them and however the output
\* was cut into chunks; every request whose answer was received is resolved
\* with it; and a chunk that completes no well-formed line changes neither
\* the pending map, nor a caller, nor a timer, nor the connection state.
C30_MalformedLineDiscarded ==
  /\ [](LET whole == FeedChunks(<<>>, <<>>, WholeLines(received))
        IN /\ IdsOf(handled) = IdsOf(whole.responses)
           /\ \A c \in CallIds :
                (\E i \in 1..Len(whole.responses) :
                    calls[c].id # "" /\ whole.responses[i].id = calls[c].id)
                  => /\ ResolvedWithResponse(c)
                     /\ calls[c].resp.id = calls[c].id
                     /\ ~MapHas(pendingRequests, calls[c].id))
  /\ [][(received' # received /\ handled' = handled) =>
          /\ pendingRequests' = pendingRequests
          /\ calls' = calls
          /\ timer' = timer
          /\ connected' = connected
          /\ mcpProcess' = mcpProcess]_vars

\* a malformed line was received, then the answer to a request, and the
\* request is resolved with its answer
C30_Witness ==
  /\ Len(ReceivedLines) = 2
  /\ Malformed(ReceivedLines[1])
  /\ Len(handled) = 1
  /\ responseBuffer = <<>>
  /\ ResolvedWithResponse(1)
  /\ calls[1].resp.id = calls[1].id

\* ------------------------------------------- claims, MCPClient: the lifecycle
\* the subprocesses that were spawned, run, and were not asked to stop
Running == {p \in Procs : procs[p] = "running"}

\* C31: at every moment at most one subprocess that this client spawned is
\* running: a connect() issued while a subprocess is owned does not leave two
\* running subprocesses whose output handlers feed the client's one response
\* buffer and one pending map.
C31_AtMostOneLiveSubprocess ==
  Cardinality(Running) <= 1

\* C32: from disconnect() until the next connect() (the client owns no
\* subprocess) listTools() returns no tool descriptors: the catalog that a
\* connect() loaded was discarded by disconnect().
C32_CatalogDiscardedOnDisconnect ==
  mcpProcess = 0 => ListTools = <<>>

\* ------------------------------------------------- claims, touching a session
\* the record updateSessionActivity leaves for a message that enters at time
\* now, given the record it finds
Touched(session, now) ==
  IF session.messageCount = 0
  THEN [createdAt |-> now, lastActivity |-> now, messageCount |-> 1]
  ELSE [createdAt |-> session.createdAt, lastActivity |-> now,
        messageCount |-> session.messageCount + 1]

\* C33: a message that enters processMessage touches its session once: a
\* record is made with messageCount 1, or messageCount grows by 1 and
\* lastActivity becomes the current time; no other step of a run (a model
\* reply, the end of a batch, the continuation pass, a follow-up) changes a
\* record; so messageCount is the number of messages that entered for the
\* session since its record was made.
C33_TouchedOncePerMessage ==
  /\ [](\A s \in SessionIds : sessions[s].messageCount = inbound[s])
  /\ [][\A r \in Runs :
          /\ \A s \in SessionIds :
               Enters(r, s) =>
                 /\ sessions'[s] = Touched(sessions[s], clock)
                 /\ \A t \in SessionIds \ {s} : sessions'[t] = sessions[t]
          /\ (runs'[r] # runs[r] /\ runs[r].pc # "idle") => sessions' = sessions]_vars

\* two messages entered for one session, the first went through a
\* continuation pass and the second waits for its follow-up: the count is 2
C33_Witness ==
  /\ runs[1].sessionId = "s1" /\ runs[1].pass = 2 /\ runs[1].pc = "done"
  /\ runs[2].sessionId = "s1" /\ runs[2].pc = "followUp"
  /\ sessions["s1"].messageCount = 2
  /\ sessions["s1"].lastActivity > sessions["s1"].createdAt

\* -------------------------------------------------- claims, explicit eviction
\* a step that removes the record or the history of session id and is no
\* sweep: clearSession(id)
ClearStep(id) ==
  /\ ~SweepStep
  /\ runs' = runs
  /\ \/ (Present(id) /\ ~Present(id)')
     \/ (conversations[id] # <<>> /\ conversations'[id] = <<>>)

\* C34: clearSession(id), called in any state, leaves no record and no history
\* for id and every other record and history as it was, and changes nothing
\* when id has neither; a sweep that evicts just id leaves the registry and
\* the histories exactly as clearSession(id) would; and a step that clears id
\* changes nothing but the record and the history of id.
C34_ClearSessionIsEviction ==
  /\ [](\A id \in SessionIds :
          LET st == Stores(sessions, conversations)
              after == ClearSessionEffect(st, id)
          IN /\ after.sessions[id] = NoSession
             /\ after.conversations[id] = <<>>
             /\ \A other \in SessionIds \ {id} :
                  /\ after.sessions[other] = sessions[other]
                  /\ after.conversations[other] = conversations[other]
             /\ (~Present(id) /\ conversations[id] = <<>>) => after = st)
  /\ [][\A id \in SessionIds :
          /\ (SweepStep /\ swept' \ swept = {id}) =>
               Stores(sessions', conversations')
                 = ClearSessionEffect(Stores(sessions, conversations), id)
          /\ ClearStep(id) =>
               /\ ~Present(id)' /\ conversations'[id] = <<>>
               /\ \A other \in SessionIds \ {id} :
                    /\ sessions'[other] = sessions[other]
                    /\ conversations'[other] = conversations[other]
               /\ clock' = clock]_vars

\* a session with a record and a history was cleared, by no sweep, while the
\* other session kept its record and its history
C34_Witness ==
  /\ runs[1].sessionId = "s1" /\ runs[1].pc = "done"
  /\ runs[2].sessionId = DefaultSession /\ runs[2].pc = "done"
  /\ openai
  /\ ~Present("s1") /\ conversations["s1"] = <<>> /\ "s1" \notin swept
  /\ Present(DefaultSession) /\ Len(conversations[DefaultSession]) = 2

\* ------------------------------------------- claims, a client not connected
\* every callTool of the message of slot m threw 'not connected', and there
\* was at least one
NotConnectedThroughout(m) ==
  /\ chat[m].toolCalls # <<>>
  /\ \A i \in DOMAIN chat[m].log :
       chat[m].log[i].ev = "return" =>
         /\ chat[m].log[i].outcome.thrown
         /\ chat[m].log[i].outcome.error
              \in {ErrNotConnected, "Local macOS client not connected"}

\* how often callTool was invoked for tool call k of the first batch
Attempts(m, k) ==
  Cardinality({i \in DOMAIN chat[m].log :
                 /\ chat[m].log[i].ev = "call"
                 /\ chat[m].log[i].pass = 1
                 /\ chat[m].log[i].k = k})

\* a response that tells of the failure: an error response, or the summary of
\* a model that was given the list of the tools that failed (llmService.ts
\* 300-302)
ReportsFailure(response) ==
  \/ response.type = "error"
  \/ response.content = <<"summary of the model">>

\* C35: a message whose tool calls all met a client that is not connected
\* ends with each tool call attempted once, no connect() and nothing written
\* to a subprocess, and exactly one chat_response, which reports the failure.
C35_NotConnectedIsReported ==
  \A m \in Msgs :
    (Done(m) /\ NotConnectedThroughout(m)) =>
      /\ \A k \in 1..Len(chat[m].toolCalls) : Attempts(m, k) = 1
      /\ chat[m].decisions = 1
      /\ mcpProcess = 0 /\ ~connected
      /\ \A p \in Procs : stdin[p] = <<>>
      /\ EmittedCount(m, "chat_response") = 1
      /\ ReportsFailure(chat[m].response)

\* ------------------------------------------ claims, a decision call that fails
\* the decision call of run r fails in this step: at once, for want of a
\* provider, or when callLLMWithRetry throws its last error
DecisionFails(r) ==
  \/ runs[r].pc = "idle" /\ runs'[r].pc = "done"
  \/ runs[r].pc = "deciding" /\ runs'[r].pc = "done" /\ appended' = appended

\* from the call of run r on, nothing but that call touched the history of
\* its session: no other run works for the session, and the history was not
\* cleared meanwhile
Undisturbed(r, s) ==
  /\ \A q \in Runs \ {r} : runs'[q].sessionId # s
  /\ runs[r].pc = "deciding" => appended[s] # <<>>

\* C37: a decision call that fails leaves the history of its session as it
\* was when the call was made (the context the call read), so no user
\* message without an answer stays behind.
C37_FailedDecisionLeavesHistory ==
  [][\A r \in Runs, s \in SessionIds :
       (DecisionFails(r) /\ runs'[r].sessionId = s /\ Undisturbed(r, s)) =>
         conversations'[s] = IF runs[r].pc = "idle" THEN conversations[s]
                             ELSE runs[r].context]_vars

\* --------------------------------------- claims, events of a replaced process
\* subprocess p, which disconnect() killed and a later connect() replaced,
\* emits its 'exit' in this step
ReplacedProcessEnds(p) ==
  /\ procs[p] = "killed"
  /\ procs'[p] = "dead"
  /\ mcpProcess # 0
  /\ mcpProcess # p

\* C36: the 'exit' of a subprocess the client no longer owns changes nothing
\* of the current connection: isConnected() stays as it was, the requests
\* sent to the current subprocess stay pending and their callers suspended.
C36_ReplacedProcessIsIgnored ==
  [][\A p \in Procs :
       ReplacedProcessEnds(p) =>
         /\ IsConnected' = IsConnected
         /\ pendingRequests' = pendingRequests
         /\ \A c \in CallIds :
              (Awaiting(c) /\ calls[c].proc = mcpProcess) => Awaiting(c)']_vars

\* ------------------------------------------------ claims, the typing indicator
\* the events the handler of slot m emitted, in order
EventsOf(m) == [i \in 1..Len(chat[m].emitted) |-> chat[m].emitted[i].event]

\* C38: for a valid chat_message the server emits typing_start, and nothing
\* more while the message is processed; when the handler ends it has emitted
\* typing_start, typing_stop and chat_response, once each and in this order,
\* whether processMessage answered or its catch did.
C38_TypingBracketsResponse ==
  \A m \in Msgs :
    Entered(m) =>
      /\ InFlight(m) => EventsOf(m) = <<"typing_start">>
      /\ Done(m) => EventsOf(m) = <<"typing_start", "typing_stop", "chat_response">>
      /\ InFlight(m) \/ Done(m)

\* a message whose decision call threw was answered by the catch of
\* processMessage, and the three events were emitted
C38_Witness ==
  /\ Done(1)
  /\ RaisedIn(1, "decision")
  /\ chat[1].response.type = "error"
  /\ EventsOf(1) = <<"typing_start", "typing_stop", "chat_response">>

\* =========================================================================
\* The hook useSocket of the browser, frontend/src/hooks/useSocket.ts.  The
\* sockets are made with reconnection: false (line 44): a socket that failed
\* to connect or was disconnected emits nothing more, and the hook alone
\* decides about a new attempt.
\* =========================================================================

\* Math.pow
RECURSIVE Pow(_, _)
Pow(b, e) == IF e = 0 THEN 1 ELSE b * Pow(b, e - 1)

\* a delay that doubles without a cap
ReconnectDelayUncapped(attempts) == 1000 * Pow(2, attempts - 1)

\* line 160
ReconnectDelay(attempts) == Min(1000 * Pow(2, attempts - 1), 10000)

\* the refs and the state of the hook as one value
Hook ==
  [socket |-> socket, sockets |-> sockets, reconnectAttempts |-> reconnectAttempts,
   reconnectTimeout |-> reconnectTimeout, timers |-> timers, reconnects |-> reconnects]

Commit(h) ==
  /\ socket' = h.socket
  /\ sockets' = h.sockets
  /\ reconnectAttempts' = h.reconnectAttempts
  /\ reconnectTimeout' = h.reconnectTimeout
  /\ timers' = h.timers
  /\ reconnects' = h.reconnects

\* the sockets io() has made so far
Made(h) == {i \in Sockets : h.sockets[i].status # "none"}

\* cleanup, lines 23-32, of the render whose 'socket' is seen: that socket
\* loses its listeners and is disconnected, the timer reconnectTimeout.current
\* refers to is cleared, setSocket(null)
Cleanup(h, seen) ==
  [h EXCEPT !.sockets = IF seen # 0 THEN [@ EXCEPT ![seen].status = "closed"] ELSE @,
            !.timers = IF h.reconnectTimeout # 0 /\ @[h.reconnectTimeout].st = "armed"
                       THEN [@ EXCEPT ![h.reconnectTimeout].st = "cleared"] ELSE @,
            !.socket = 0]

\* connectSocket, lines 34-45 and 155: cleanup(), then io() makes a socket
\* whose handlers belong to the same render
ConnectSocket(h, seen) ==
  LET c == Cleanup(h, seen)
      i == Cardinality(Made(h)) + 1
  IN [c EXCEPT !.sockets = [@ EXCEPT ![i] = [status |-> "connecting", closure |-> seen]]]

\* scheduleReconnect, lines 158-175: the counter grows, and a timer is set
\* whose handle replaces the one in reconnectTimeout.current
ScheduleReconnect(h, seen) ==
  LET attempts == h.reconnectAttempts + 1
      delay == ReconnectDelay(attempts)
  IN [h EXCEPT !.reconnectAttempts = attempts,
               !.timers = Append(@, [st |-> "armed", left |-> delay, delay |-> delay,
                                     attempt |-> attempts, closure |-> seen]),
               !.reconnectTimeout = Len(h.timers) + 1]

\* 'connect', lines 48-53
OnConnect(i) ==
  /\ sockets[i].status = "connecting"
  /\ Commit([Hook EXCEPT !.sockets = [@ EXCEPT ![i].status = "connected"],
                         !.reconnectAttempts = 0,
                         !.socket = i])
  /\ UNCHANGED <<mcpVars, chatVars, llmVars, runVars>>

\* the reasons of a 'disconnect' event
DisconnectReasons == {"transport close", "io client disconnect"}

\* 'disconnect', lines 55-64
OnDisconnect(i, reason) ==
  /\ sockets[i].status = "connected"
  /\ LET h == [Hook EXCEPT !.sockets = [@ EXCEPT ![i].status = "closed"],
                           !.socket = 0]
     IN Commit(IF reason # "io client disconnect"
                    /\ reconnectAttempts < maxReconnectAttempts
                 THEN ScheduleReconnect(h, sockets[i].closure) ELSE h)
  /\ UNCHANGED <<mcpVars, chatVars, llmVars, runVars>>

\* 'connect_error', lines 66-83
OnConnectError(i) ==
  /\ sockets[i].status = "connecting"
  /\ LET h == [Hook EXCEPT !.sockets = [@ EXCEPT ![i].status = "closed"]]
     IN Commit(IF reconnectAttempts < maxReconnectAttempts
               THEN ScheduleReconnect(h, sockets[i].closure) ELSE h)
  /\ UNCHANGED <<mcpVars, chatVars, llmVars, runVars>>

\* the callback of the timer, lines 170-174
ReconnectTimerFires(t) ==
  /\ t \in DOMAIN timers
  /\ timers[t].st = "armed"
  /\ timers[t].left = 0
  /\ Cardinality(Made(Hook)) < MaxSockets
  /\ LET h == [Hook EXCEPT !.timers = [@ EXCEPT ![t].st = "fired"]]
     IN Commit(IF reconnectAttempts <= maxReconnectAttempts
               THEN ConnectSocket(h, timers[t].closure) ELSE h)
  /\ UNCHANGED <<mcpVars, chatVars, llmVars, runVars>>

\* reconnect(), lines 178-181, of the current render
Reconnect ==
  /\ reconnects < MaxReconnects
  /\ Cardinality(Made(Hook)) < MaxSockets
  /\ Commit(ConnectSocket([Hook EXCEPT !.reconnectAttempts = 0,
                                       !.reconnects = @ + 1], socket))
  /\ UNCHANGED <<mcpVars, chatVars, llmVars, runVars>>

\* the timers that are set and have neither fired nor been cleared
ArmedTimers == {t \in DOMAIN timers : timers[t].st = "armed"}

\* time passes, up to the next timer that is due
HookTick ==
  /\ ArmedTimers # {}
  /\ \A t \in ArmedTimers : timers[t].left > 0
  /\ LET d == SetMin({timers[t].left : t \in ArmedTimers})
     IN timers' = [t \in DOMAIN timers |->
                     IF timers[t].st = "armed"
                     THEN [timers[t] EXCEPT !.left = @ - d] ELSE timers[t]]
  /\ UNCHANGED <<socket, sockets, reconnectAttempts, reconnectTimeout, reconnects>>
  /\ UNCHANGED <<mcpVars, chatVars, llmVars, runVars>>

NextHook ==
  \/ \E i \in Sockets : OnConnect(i)
  \/ \E i \in Sockets, reason \in DisconnectReasons : OnDisconnect(i, reason)
  \/ \E i \in Sockets : OnConnectError(i)
  \/ \E t \in 1..MaxSockets : ReconnectTimerFires(t)
  \/ Reconnect
  \/ HookTick

SpecHook == InitLLM /\ [][NextHook]_vars

\* ----------------------------------------------------------- claims, useSocket
\* the delays of the automatic attempts 1 to 5
BackoffTable == <<1000, 2000, 4000, 8000, 10000>>

\* a socket connects in this step
Connects == \E i \in Sockets : sockets[i].status = "connecting" /\ sockets'[i].status = "connected"

\* C39: the attempt counter stays within 0..5; the timer of automatic attempt
\* n is set for 1000, 2000, 4000, 8000, 10000 ms (n = 1..5) and the attempt is
\* made when that time has passed; a timer is set only while the counter is
\* below 5, so after the fifth failed attempt none is set; and the counter
\* only grows by one or returns to 0, the latter only when a socket connects
\* or reconnect() is called.
C39_ReconnectionIsBounded ==
  /\ [](/\ reconnectAttempts \in 0..5
        /\ \A t \in DOMAIN timers :
             /\ timers[t].attempt \in 1..5
             /\ timers[t].delay = BackoffTable[timers[t].attempt]
             /\ timers[t].st = "fired" => timers[t].left = 0)
  /\ [][/\ Len(timers') > Len(timers) =>
             /\ reconnectAttempts < 5
             /\ reconnectAttempts' = reconnectAttempts + 1
             /\ timers'[Len(timers')].attempt = reconnectAttempts'
        /\ reconnectAttempts' # reconnectAttempts =>
             \/ reconnectAttempts' = reconnectAttempts + 1 /\ Len(timers') > Len(timers)
             \/ reconnectAttempts' = 0 /\ (Connects \/ reconnects' = reconnects + 1)
        /\ (Cardinality(Made(Hook)') > Cardinality(Made(Hook)) /\ reconnects' = reconnects) =>
             \E t \in DOMAIN timers :
               timers[t].st = "armed" /\ timers[t].left = 0 /\ timers'[t].st = "fired"]_vars

\* the first socket and five automatic attempts failed to connect: the counter
\* is 5, the five delays were 1000, 2000, 4000, 8000 and 10000 ms, every
\* timer has fired and none is set
C39_Witness ==
  /\ reconnectAttempts = 5
  /\ reconnects = 0
  /\ Len(timers) = 5
  /\ \A t \in 1..5 : timers[t].st = "fired" /\ timers[t].delay = BackoffTable[t]
  /\ \A i \in 1..6 : sockets[i].status = "closed"
  /\ sockets[7].status = "none"

====
